---------------------------- MODULE Spec2Model ----------------------------
(***************************************************************************)
(* A model of pymetaf/parser.py: the field pattern table, the field        *)
(* extractor get_field_text, the decoder parse_text and the validator      *)
(* validate_metar.  Report texts are TLA+ strings; a character is a string *)
(* of length one.  The regular expressions of the source are kept as data  *)
(* (a small syntax tree per pattern) and matched by a backtracking matcher *)
(* that lists the possible ends of a match in the order in which Python's  *)
(* re module tries them.                                                   *)
(***************************************************************************)
EXTENDS Integers, Sequences, FiniteSets, TLC

VARIABLES text, year, month, strict_mode, verdict, record, patterns, calls

vars == <<text, year, month, strict_mode, verdict, record, patterns, calls>>

---------------------------------------------------------------------------
(* Characters and strings                                                  *)

Digit == {"0", "1", "2", "3", "4", "5", "6", "7", "8", "9"}

Upper == {"A", "B", "C", "D", "E", "F", "G", "H", "I", "J", "K", "L", "M",
          "N", "O", "P", "Q", "R", "S", "T", "U", "V", "W", "X", "Y", "Z"}

Lower == {"a", "b", "c", "d", "e", "f", "g", "h", "i", "j", "k", "l", "m",
          "n", "o", "p", "q", "r", "s", "t", "u", "v", "w", "x", "y", "z"}

\* \s of the re module (on the characters a report can hold)
Space == {" ", "\t", "\n", "\r", "\f"}

\* \w of the re module
WordChar == Upper \cup Lower \cup Digit \cup {"_"}

\* s[i-1] of Python for the 1-based position i; "" outside the string
At(s, i) == IF i >= 1 /\ i <= Len(s) THEN SubSeq(s, i, i) ELSE ""

\* s[a-1:] and s[a-1:b] of Python for 1-based, inclusive positions
From(s, a) == SubSeq(s, a, Len(s))

Slice(s, a, b) == SubSeq(s, a, IF b < Len(s) THEN b ELSE Len(s))

startswith(s, p) == Len(p) <= Len(s) /\ SubSeq(s, 1, Len(p)) = p

endswith(s, p) == Len(p) <= Len(s) /\ SubSeq(s, Len(s) - Len(p) + 1, Len(s)) = p

\* the least element of a nonempty set of integers
Least(S) == CHOOSE x \in S : \A y \in S : x <= y

\* the first position >= i at which sub occurs in s, 0 when there is none
FindFrom(s, sub, i) ==
    LET at == {j \in i..(Len(s) - Len(sub) + 1) : SubSeq(s, j, j + Len(sub) - 1) = sub}
    IN  IF at = {} THEN 0 ELSE Least(at)

\* sub in s
Contains(s, sub) == FindFrom(s, sub, 1) # 0

RECURSIVE replace(_, _, _)
\* s.replace(old, new), old not empty
replace(s, old, new) ==
    LET p == FindFrom(s, old, 1)
    IN  IF p = 0 THEN s
        ELSE SubSeq(s, 1, p - 1) \o new \o replace(From(s, p + Len(old)), old, new)

\* every character of s is in the set S (true of the empty string)
AllIn(s, S) == \A i \in 1..Len(s) : At(s, i) \in S

\* str.isdigit()
isdigit(s) == Len(s) > 0 /\ AllIn(s, Digit)

DigitValue(c) ==
    CASE c = "0" -> 0 [] c = "1" -> 1 [] c = "2" -> 2 [] c = "3" -> 3
      [] c = "4" -> 4 [] c = "5" -> 5 [] c = "6" -> 6 [] c = "7" -> 7
      [] c = "8" -> 8 [] c = "9" -> 9

RECURSIVE DecimalValue(_)
\* the value of a string of decimal digits
DecimalValue(s) ==
    IF Len(s) = 0 THEN 0
    ELSE 10 * DecimalValue(SubSeq(s, 1, Len(s) - 1)) + DigitValue(At(s, Len(s)))

\* int(s) succeeds for the strings the decoder passes exactly when s is an
\* optional sign followed by decimal digits; otherwise it raises ValueError
IsIntLiteral(s) ==
    \/ isdigit(s)
    \/ Len(s) > 1 /\ At(s, 1) \in {"-", "+"} /\ isdigit(From(s, 2))

\* int(s) for a string with IsIntLiteral(s)
PyInt(s) ==
    IF isdigit(s) THEN DecimalValue(s)
    ELSE IF At(s, 1) = "-" THEN 0 - DecimalValue(From(s, 2))
    ELSE DecimalValue(From(s, 2))

\* The value None, and a value that is not None
None == [none |-> TRUE]

Some(v) == [none |-> FALSE, v |-> v]

\* The outcome of a call that raised the exception err
Raise(err) == [outcome |-> "raise", error |-> err]

---------------------------------------------------------------------------
(* Regular expressions as data.                                            *)

Lit(str)   == [k |-> "lit", str |-> str]
Cls(S)     == [k |-> "cls", set |-> S]
NotCls(S)  == [k |-> "ncls", set |-> S]
Cat(parts) == [k |-> "cat", parts |-> parts]
Alt(parts) == [k |-> "alt", parts |-> parts]
Opt(r)     == [k |-> "opt", r |-> r]
Star(r)    == [k |-> "star", r |-> r]
Plus(r)    == [k |-> "cat", parts |-> <<r, [k |-> "star", r |-> r]>>]
LazyStar(r) == [k |-> "lazy", r |-> r]
Ahead(r)    == [k |-> "ahead", r |-> r]
NotAhead(r) == [k |-> "nahead", r |-> r]
Behind(S)   == [k |-> "behind", set |-> S]
WordB       == [k |-> "wordb"]
Bos         == [k |-> "bos"]
Eos         == [k |-> "eos"]

\* r{n}
Rep(r, n) == [k |-> "cat", parts |-> [j \in 1..n |-> r]]

\* r{lo,hi}, greedy
RepRange(r, lo, hi) ==
    [k |-> "cat",
     parts |-> [j \in 1..(lo + 1) |-> IF j <= lo THEN r ELSE [k |-> "optn", r |-> r, n |-> hi - lo]]]

D == Cls(Digit)

\* whether the single character at position i of s is matched by the class c
InClass(c, s, i) ==
    i <= Len(s) /\ IF c.k = "cls" THEN At(s, i) \in c.set ELSE At(s, i) \notin c.set

\* the end of the longest run of characters of the class c that starts at i
RunEnd(c, s, i) == Least({j \in i..(Len(s) + 1) : ~InClass(c, s, j)})

RECURSIVE Ends(_, _, _), EndsCat(_, _, _, _), EndsAlt(_, _, _, _), EndsThen(_, _, _, _)

\* The ends e (the match is s[i..e-1]) of the matches of r that start at
\* position i of s, in the order in which the backtracking matcher finds them.
Ends(r, s, i) ==
    CASE r.k = "lit" ->
            IF i + Len(r.str) - 1 <= Len(s) /\ SubSeq(s, i, i + Len(r.str) - 1) = r.str
            THEN <<i + Len(r.str)>> ELSE <<>>
      [] r.k = "cls" -> IF i <= Len(s) /\ At(s, i) \in r.set THEN <<i + 1>> ELSE <<>>
      [] r.k = "ncls" -> IF i <= Len(s) /\ At(s, i) \notin r.set THEN <<i + 1>> ELSE <<>>
      [] r.k = "cat" -> EndsCat(r.parts, 1, s, i)
      [] r.k = "alt" -> EndsAlt(r.parts, 1, s, i)
      [] r.k = "opt" -> Ends(r.r, s, i) \o <<i>>
      [] r.k = "optn" ->
            \* up to n more of r, as many as possible first
            IF r.n = 0 THEN <<i>>
            ELSE EndsThen(Ends(r.r, s, i), 1, [k |-> "optn", r |-> r.r, n |-> r.n - 1], s) \o <<i>>
      [] r.k = "star" ->
            IF r.r.k \in {"cls", "ncls"}
            THEN \* a run of single characters: the longest first
                 LET stop == RunEnd(r.r, s, i)
                 IN  [n \in 1..(stop - i + 1) |-> stop - n + 1]
            ELSE LET more == SelectSeq(Ends(r.r, s, i), LAMBDA e : e > i)
                 IN  EndsThen(more, 1, r, s) \o <<i>>
      [] r.k = "lazy" ->
            \* a run of single characters: the shortest first
            LET stop == RunEnd(r.r, s, i)
            IN  [n \in 1..(stop - i + 1) |-> i + n - 1]
      [] r.k = "ahead" -> IF Ends(r.r, s, i) # <<>> THEN <<i>> ELSE <<>>
      [] r.k = "nahead" -> IF Ends(r.r, s, i) = <<>> THEN <<i>> ELSE <<>>
      [] r.k = "behind" -> IF i > 1 /\ At(s, i - 1) \in r.set THEN <<i>> ELSE <<>>
      [] r.k = "wordb" ->
            IF (At(s, i - 1) \in WordChar) # (At(s, i) \in WordChar) THEN <<i>> ELSE <<>>
      [] r.k = "bos" -> IF i = 1 THEN <<i>> ELSE <<>>
      [] r.k = "eos" -> IF i = Len(s) + 1 THEN <<i>> ELSE <<>>

\* parts[j], parts[j+1], ... in sequence from position i
EndsCat(parts, j, s, i) ==
    IF j > Len(parts) THEN <<i>>
    ELSE LET first == Ends(parts[j], s, i)
             RECURSIVE Rest(_, _)
             \* the rest of the parts from first[lo], ..., first[hi]
             Rest(lo, hi) ==
                 IF lo > hi THEN <<>>
                 ELSE IF lo = hi THEN EndsCat(parts, j + 1, s, first[lo])
                 ELSE LET mid == (lo + hi) \div 2
                      IN  Rest(lo, mid) \o Rest(mid + 1, hi)
         IN  Rest(1, Len(first))

\* parts[j] | parts[j+1] | ... from position i
EndsAlt(parts, j, s, i) ==
    IF j > Len(parts) THEN <<>>
    ELSE Ends(parts[j], s, i) \o EndsAlt(parts, j + 1, s, i)

\* r continued from each of ends[n], ends[n+1], ...
EndsThen(ends, n, r, s) ==
    IF n > Len(ends) THEN <<>>
    ELSE Ends(r, s, ends[n]) \o EndsThen(ends, n + 1, r, s)

NoMatch == [found |-> FALSE]

\* re.match(r, s): the match at the start of s
re_match(r, s) ==
    LET e == Ends(r, s, 1)
    IN  IF e = <<>> THEN NoMatch
        ELSE [found |-> TRUE, start |-> 1, end |-> e[1], group |-> SubSeq(s, 1, e[1] - 1)]

\* the ends of the matches of r at position j, without the empty match when
\* j is a position at which the match may not be empty
EndsAt(r, s, j, i, nonempty) ==
    IF nonempty /\ j = i THEN SelectSeq(Ends(r, s, j), LAMBDA x : x > j) ELSE Ends(r, s, j)

RECURSIVE FirstStart(_, _, _, _, _, _)
\* the first position in lo..hi at which r matches, 0 when there is none
FirstStart(r, s, lo, hi, i, nonempty) ==
    IF lo > hi THEN 0
    ELSE IF lo = hi THEN (IF EndsAt(r, s, lo, i, nonempty) # <<>> THEN lo ELSE 0)
    ELSE LET mid == (lo + hi) \div 2
             left == FirstStart(r, s, lo, mid, i, nonempty)
         IN  IF left # 0 THEN left ELSE FirstStart(r, s, mid + 1, hi, i, nonempty)

\* the leftmost match of r in s that starts at position i or later; with
\* nonempty set the match may not be the empty match at i
SearchFrom(r, s, i, nonempty) ==
    LET st == FirstStart(r, s, i, Len(s) + 1, i, nonempty)
    IN  IF st = 0 THEN NoMatch
        ELSE LET e == EndsAt(r, s, st, i, nonempty)
             IN  [found |-> TRUE, start |-> st, end |-> e[1], group |-> SubSeq(s, st, e[1] - 1)]

\* re.search(r, s)
re_search(r, s) == SearchFrom(r, s, 1, FALSE)

RECURSIVE FindAllFrom(_, _, _, _)
\* the groups of re.finditer(r, s): the non-overlapping matches from the
\* left; after an empty match the next match may not be empty at the same place
FindAllFrom(r, s, i, nonempty) ==
    LET m == SearchFrom(r, s, i, nonempty)
    IN  IF ~m.found THEN <<>>
        ELSE <<m.group>> \o FindAllFrom(r, s, m.end, m.end = m.start)

re_findall(r, s) == FindAllFrom(r, s, 1, FALSE)

---------------------------------------------------------------------------
(* FIELD_PATTERNS, parser.py lines 11-64                                   *)

PatKind ==
    Alt(<<Cat(<<Lit("METAR"), Opt(Lit(" COR"))>>),
          Cat(<<Lit("SPECI"), Opt(Lit(" COR"))>>),
          Cat(<<Lit("TAF"),
                Opt(Alt(<<Cat(<<Lit(" AMD"), Opt(Lit(" CNL"))>>), Lit(" COR")>>))>>)>>)

PatTime == Cat(<<Rep(D, 6), Lit("Z")>>)

PatIcao == Cat(<<WordB, Rep(Cls(Upper), 4), WordB>>)

\* [G\d{2}]* is a character class: G, a digit, "{", "2" or "}"
PatWind ==
    Cat(<<Alt(<<Rep(D, 3), Lit("VRB")>>), Rep(D, 2),
          Star(Cls(Digit \cup {"G", "{", "}"})),
          Alt(<<Lit("MPS"), Lit("KT")>>),
          Opt(Cat(<<Lit(" "), Rep(D, 3), Lit("V"), Rep(D, 3)>>))>>)

PatTempDew ==
    Cat(<<WordB, Opt(Lit("M")), Rep(D, 2), Lit("/"), Opt(Lit("M")), Rep(D, 2), WordB>>)

PatQnh == Cat(<<Cls({"A", "Q"}), Rep(D, 4)>>)

PatAuto == Lit("AUTO")

PatCorrect == Lit("COR")

PatCavok == Lit("CAVOK")

PatRvr ==
    Cat(<<Lit("R"), Rep(D, 2), Opt(Cls({"R", "L", "C"})), Lit("/"),
          Opt(Cat(<<Rep(D, 4), Lit("V")>>)), Opt(Cls({"P", "M"})), Rep(D, 4),
          Opt(Cls({"U", "D", "N"}))>>)

PatVvis == Cat(<<Lit("VV"), Rep(D, 3)>>)

PatVis ==
    Cat(<<WordB, Alt(<<Cat(<<RepRange(D, 1, 2), Lit("SM")>>), Rep(D, 4)>>), WordB,
          NotAhead(Lit("/"))>>)

PatCloud ==
    Cat(<<Alt(<<Lit("FEW"), Lit("SCT"), Lit("BKN"), Lit("OVC"), Lit("SKC"), Lit("NSC")>>),
          Opt(Rep(D, 3)),
          Opt(Star(Cls(Upper \cup Lower)))>>)

PatWeather ==
    Cat(<<Behind(Space),
          Opt(Alt(<<Lit("+"), Lit("-"), Lit("VC"), Lit("RE")>>)),
          Opt(Alt(<<Lit("MI"), Lit("BC"), Lit("PR"), Lit("DR"), Lit("BL"), Lit("SH"),
                    Lit("TS"), Lit("FZ")>>)),
          Opt(Alt(<<Lit("DZ"), Lit("RA"), Lit("SN"), Lit("SG"), Lit("IC"), Lit("PL"),
                    Lit("GR"), Lit("GS")>>)),
          Opt(Alt(<<Lit("BR"), Lit("FG"), Lit("FU"), Lit("VA"), Lit("DU"), Lit("SA"),
                    Lit("HZ")>>)),
          Opt(Alt(<<Lit("PO"), Lit("SQ"), Lit("FC"), Lit("SS"), Lit("DS")>>)),
          Ahead(Cls(Space))>>)

PatWshear ==
    Cat(<<Lit("WS "), Opt(Alt(<<Lit("LDG "), Lit("TKOF "), Lit("ALL ")>>)), Lit("RWY"),
          Plus(D), Opt(Cls({"L", "R", "C"}))>>)

PatTrend ==
    Cat(<<Alt(<<Lit("TEMPO"), Lit("BECMG"), Lit("NOSIG")>>), LazyStar(NotCls({"\n"})),
          Ahead(Alt(<<Lit(" TEMPO"), Lit(" BECMG"), Lit(" NOSIG"), Lit("=")>>))>>)

PatVartime == Cat(<<Alt(<<Lit("FM"), Lit("TL"), Lit("AT")>>), Rep(D, 4)>>)

PatObserv ==
    Cat(<<Alt(<<Lit("METAR"), Lit("SPECI"), Lit("TAF")>>), LazyStar(NotCls({"\n"})),
          Ahead(Alt(<<Lit(" TEMPO"), Lit(" BECMG"), Lit(" NOSIG")>>))>>)

PatValidtime == Cat(<<WordB, Rep(D, 6), WordB>>)

PatCancel == Lit("CNL")

PatAmend == Lit("AMD")

PatTxtn ==
    Cat(<<Lit("TX"), Opt(Lit("M")), Plus(D), Lit("/"), Opt(Lit("M")), Plus(D), Lit("Z"),
          Cls(Space),
          Lit("TN"), Opt(Lit("M")), Plus(D), Lit("/"), Opt(Lit("M")), Plus(D), Lit("Z")>>)

PatNil == Lit("NIL")

FIELD_PATTERNS ==
    ("kind" :> PatKind) @@ ("time" :> PatTime) @@ ("icao" :> PatIcao) @@
    ("wind" :> PatWind) @@ ("temp/dew" :> PatTempDew) @@ ("qnh" :> PatQnh) @@
    ("auto" :> PatAuto) @@ ("correct" :> PatCorrect) @@ ("cavok" :> PatCavok) @@
    ("rvr" :> PatRvr) @@ ("vvis" :> PatVvis) @@ ("vis" :> PatVis) @@
    ("cloud" :> PatCloud) @@ ("weather" :> PatWeather) @@ ("wshear" :> PatWshear) @@
    ("trend" :> PatTrend) @@ ("vartime" :> PatVartime) @@ ("observ" :> PatObserv) @@
    ("validtime" :> PatValidtime) @@ ("cancel" :> PatCancel) @@ ("amend" :> PatAmend) @@
    ("txtn" :> PatTxtn) @@ ("nil" :> PatNil)

\* get_field_text with an empty list for mode all when nothing matches
get_field_text_with_empty_list(field, txt, mod) ==
    IF mod \notin {"first", "all"} THEN Raise("UnboundLocalError")
    ELSE IF field \notin DOMAIN patterns THEN Raise("KeyError")
    ELSE LET first(match) == IF match.found THEN Some(match.group) ELSE None
             all(matches) == Some(matches)
             fallback(result) ==
                 IF field = "observ" /\ (result.none \/ (mod = "first" /\ result.v = ""))
                 THEN Some(replace(txt, "=", ""))
                 ELSE result
             search(pattern) ==
                 fallback(IF mod = "first" THEN first(re_search(pattern, txt))
                          ELSE all(re_findall(pattern, txt)))
         IN  search(patterns[field])

\* get_field_text(field, text, mod), parser.py lines 519-543: None, or
\* Some(the first match), or Some(the sequence of all matches).  A field that
\* is not in the table raises KeyError; a mod that is neither "first" nor
\* "all" leaves result unbound, and reading it raises UnboundLocalError.  The
\* table is the module-level dictionary as it is when the call is made: the
\* variable patterns.
get_field_text(field, txt, mod) ==
    IF mod \notin {"first", "all"} THEN Raise("UnboundLocalError")
    ELSE IF field \notin DOMAIN patterns THEN Raise("KeyError")
    ELSE LET first(match) == IF match.found THEN Some(match.group) ELSE None
             all(matches) == IF matches # <<>> THEN Some(matches) ELSE None
             \* "if field == 'observ' and not result": None or the empty string
             \* (a list is never empty here)
             fallback(result) ==
                 IF field = "observ" /\ (result.none \/ (mod = "first" /\ result.v = ""))
                 THEN Some(replace(txt, "=", ""))
                 ELSE result
             search(pattern) ==
                 fallback(IF mod = "first" THEN first(re_search(pattern, txt))
                          ELSE all(re_findall(pattern, txt)))
         IN  search(patterns[field])

---------------------------------------------------------------------------
(* get_weather_description, parser.py lines 546-598                        *)

\* the keys of the table with FZ left out
WEATHER_KEYS_without_FZ ==
    <<"DZ", "RA", "SN", "SG", "IC", "PL", "GR", "GS", "UP", "BR", "FG", "FU", "VA",
      "DU", "SA", "HZ", "PY", "PO", "SQ", "FC", "SS", "DS", "SH", "TS", "BL", "MI",
      "BC", "PR", "DR", "VC", "RE">>

\* the keys of weather_codes in the order a Python dict iterates them
WEATHER_KEYS ==
    <<"DZ", "RA", "SN", "SG", "IC", "PL", "GR", "GS", "UP", "BR", "FG", "FU", "VA",
      "DU", "SA", "HZ", "PY", "PO", "SQ", "FC", "SS", "DS", "SH", "TS", "BL", "MI",
      "BC", "PR", "DR", "FZ", "VC", "RE">>

weather_codes ==
    [DZ |-> "Drizzle", RA |-> "Rain", SN |-> "Snow", SG |-> "Snow Grains",
     IC |-> "Ice Crystals", PL |-> "Ice Pellets", GR |-> "Hail",
     GS |-> "Small Hail or Snow Pellets", UP |-> "Unknown Precipitation",
     BR |-> "Mist", FG |-> "Fog", FU |-> "Smoke", VA |-> "Volcanic Ash",
     DU |-> "Widespread Dust", SA |-> "Sand", HZ |-> "Haze", PY |-> "Spray",
     PO |-> "Dust/Sand Whirls", SQ |-> "Squalls", FC |-> "Funnel Cloud",
     SS |-> "Sandstorm", DS |-> "Duststorm", SH |-> "Showers of",
     TS |-> "Thunderstorm", BL |-> "Blowing", MI |-> "Shallow", BC |-> "Patches",
     PR |-> "Partial", DR |-> "Low Drifting", FZ |-> "Freezing",
     VC |-> "In the Vicinity", RE |-> "Recent"]

\* the description returned with its trailing space
strip_trailing_nothing(s) == s

\* str.strip() of a description: the peeling loop only ever leaves one
\* trailing space
strip_trailing(s) == IF endswith(s, " ") THEN SubSeq(s, 1, Len(s) - 1) ELSE s

\* the first key, in iteration order, that code starts with; 0 when none does
FirstKey(code) ==
    LET hits == {n \in 1..Len(WEATHER_KEYS) : startswith(code, WEATHER_KEYS[n])}
    IN  IF hits = {} THEN 0 ELSE Least(hits)

RECURSIVE Peel(_, _)
\* the while loop of lines 591-596 from the state (code, description): the
\* description when the code is used up; a pass of the for loop that finds no
\* key leaves code unchanged, and the loop then never ends
Peel(code, description) ==
    IF Len(code) = 0 THEN [hangs |-> FALSE, description |-> description]
    ELSE LET n == FirstKey(code)
         IN  IF n = 0 THEN [hangs |-> TRUE]
             ELSE Peel(From(code, Len(WEATHER_KEYS[n]) + 1),
                       description \o weather_codes[WEATHER_KEYS[n]] \o " ")

get_weather_description(code) ==
    LET intensity == IF startswith(code, "+") THEN "Heavy "
                     ELSE IF startswith(code, "-") THEN "Light " ELSE ""
        rest == IF startswith(code, "+") \/ startswith(code, "-") THEN From(code, 2) ELSE code
        peeled == Peel(rest, "")
    IN  IF peeled.hangs THEN [hangs |-> TRUE]
        ELSE [hangs |-> FALSE, description |-> intensity \o strip_trailing(peeled.description)]

---------------------------------------------------------------------------
(* parse_text, parser.py lines 601-823                                     *)

\* the characters of a cloud token in the order of their code points
CodePointOrder == "0123456789ABCDEFGHIJKLMNOPQRSTUVWXYZabcdefghijklmnopqrstuvwxyz"

CodePoint(c) == FindFrom(CodePointOrder, c, 1)

\* a < b for Python strings
StrLess(a, b) ==
    LET n == IF Len(a) < Len(b) THEN Len(a) ELSE Len(b)
        diff == {i \in 1..n : At(a, i) # At(b, i)}
    IN  IF diff = {} THEN Len(a) < Len(b)
        ELSE CodePoint(At(a, Least(diff))) < CodePoint(At(b, Least(diff)))

\* sorted leaving the list in the order of the report
sorted_as_reported(l) == l

RECURSIVE sorted(_)
\* sorted(list of strings): ascending and stable (insertion of the head into
\* the sorted tail, before every element that is not less than it)
sorted(l) ==
    IF Len(l) <= 1 THEN l
    ELSE LET rest == sorted(Tail(l))
             x == Head(l)
             k == Cardinality({i \in 1..Len(rest) : StrLess(rest[i], x)})
         IN  SubSeq(rest, 1, k) \o <<x>> \o SubSeq(rest, k + 1, Len(rest))

\* whether the year is a leap year, as the datetime module decides it
IsLeap(y) == y % 4 = 0 /\ (y % 100 # 0 \/ y % 400 = 0)

DaysInMonth(y, m) ==
    IF m = 2 THEN (IF IsLeap(y) THEN 29 ELSE 28)
    ELSE IF m \in {4, 6, 9, 11} THEN 30 ELSE 31

\* datetime(year, month, day, hour, minute, 0, tzinfo=utc) raises ValueError
\* unless every component is in its range
datetime_valid(y, m, d, h, mi) ==
    /\ y \in 1..9999
    /\ m \in 1..12
    /\ d \in 1..DaysInMonth(y, m)
    /\ h \in 0..23
    /\ mi \in 0..59

DigitChars == "0123456789"

RECURSIVE Padded(_, _)
\* the decimal digits of n >= 0, zero padded to at least w digits
Padded(n, w) ==
    IF n < 10 /\ w <= 1 THEN At(DigitChars, n + 1)
    ELSE Padded(n \div 10, w - 1) \o At(DigitChars, (n % 10) + 1)

\* datetime(...).isoformat() for a UTC time with zero seconds
isoformat(y, m, d, h, mi) ==
    Padded(y, 4) \o "-" \o Padded(m, 2) \o "-" \o Padded(d, 2) \o "T" \o
    Padded(h, 2) \o ":" \o Padded(mi, 2) \o ":00+00:00"

\* knots_to_mps with the product rounded to the nearest integer instead of cut
knots_to_mps_rounded(kt) == (kt * 5144444 + 5000000) \div 10000000

\* int(knots * 0.5144444): the product is never within 1e-7 of an integer for
\* a speed below 1000, so the float result is the exact floor
knots_to_mps(kt) == (kt * 5144444) \div 10000000

\* miles_to_meters_int with the factor 1609 instead of 1609.34
miles_to_meters_whole_factor(n) == n * 1609

\* int(miles_to_meters(float(n))) = int(n * 1609.34), lines 465-469 and 706-709
miles_to_meters_int(n) == (n * 160934) \div 100

\* int(int(digits) * 33.8638), line 740: 33 n + floor(0.8638 n), which keeps
\* the products within 32 bits
inhg_to_hpa(n) == 33 * n + (n * 8638) \div 10000

\* wind_direction without the calm-wind rule of lines 656-659
wind_direction_without_calm(wd_str, ws) ==
    IF wd_str = "VRB" THEN None ELSE Some(PyInt(wd_str))

\* wd of lines 648-659 for the bearing wd_str (VRB or digits) and the speed
\* ws: a zero speed with the bearing 000 is calm wind
wind_direction(wd_str, ws) ==
    IF ws = 0 /\ wd_str = "000" THEN None
    ELSE IF wd_str = "VRB" THEN None
    ELSE Some(PyInt(wd_str))

\* The wind block, lines 633-686, for windstr the result of
\* get_field_text("wind", no_trend_text): the four wind values, or the exception
parse_wind(windstr) ==
    LET \* wind_items = windstr.split(" "), cut at position sp (0: one item)
        items(w, sp) ==
            LET wdws == IF sp = 0 THEN w ELSE SubSeq(w, 1, sp - 1)
                wdrg_str == From(w, sp + 1)
                wd_str == Slice(wdws, 1, 3)
                ws_str == Slice(wdws, 4, 5)
                has_gust == At(wdws, 6) = "G"
                gust_str == Slice(wdws, 7, 8)
                unit == IF At(wdws, 6) = "G" THEN From(wdws, 9) ELSE From(wdws, 6)
                wd == wind_direction(wd_str, PyInt(ws_str))
                ws == IF unit = "KT" /\ PyInt(ws_str) # 0 THEN knots_to_mps(PyInt(ws_str))
                      ELSE PyInt(ws_str)
                gust == IF ~has_gust THEN None
                        ELSE IF unit = "KT" /\ PyInt(gust_str) # 0
                             THEN Some(knots_to_mps(PyInt(gust_str)))
                        ELSE Some(PyInt(gust_str))
                wdrg == IF sp = 0 THEN None
                        ELSE Some(<<PyInt(Slice(wdrg_str, 1, 3)), PyInt(From(wdrg_str, 5))>>)
            IN  IF sp # 0 /\ ~(IsIntLiteral(Slice(wdrg_str, 1, 3)) /\ IsIntLiteral(From(wdrg_str, 5)))
                THEN Raise("ValueError")
                ELSE IF ~IsIntLiteral(ws_str) THEN Raise("ValueError")
                ELSE IF Len(wdws) < 6 THEN Raise("IndexError")
                ELSE IF has_gust /\ ~IsIntLiteral(gust_str) THEN Raise("ValueError")
                ELSE IF wd_str # "VRB" /\ ~isdigit(wd_str) THEN Raise("UnboundLocalError")
                ELSE [outcome |-> "ok", wd |-> wd, ws |-> Some(ws), gust |-> gust, wdrg |-> wdrg]
    IN  IF windstr.none
        THEN [outcome |-> "ok", wd |-> None, ws |-> None, gust |-> None, wdrg |-> None]
        ELSE items(windstr.v, FindFrom(windstr.v, " ", 1))

\* The visibility block, lines 688-718, for the results of
\* get_field_text("cavok", no_trend_text) and get_field_text("vis", no_trend_text)
parse_visibility(cavok, visstr) ==
    IF ~visstr.none
    THEN IF visstr.v = "9999" THEN Some(99999)
         ELSE IF visstr.v = "0000" THEN Some(50)
         ELSE IF endswith(visstr.v, "SM")
              THEN Some(miles_to_meters_int(PyInt(SubSeq(visstr.v, 1, Len(visstr.v) - 2))))
         ELSE Some(PyInt(visstr.v))
    ELSE IF ~cavok.none THEN Some(99999)
    ELSE None

\* The temperature block, lines 720-732, for tempstr the result of
\* get_field_text("temp/dew", no_trend_text)
parse_temperature(tempstr) ==
    LET halves(t, sl) ==
            [temp |-> Some(PyInt(replace(SubSeq(t, 1, sl - 1), "M", "-"))),
             dewtemp |-> Some(PyInt(replace(From(t, sl + 1), "M", "-")))]
    IN  IF tempstr.none THEN [temp |-> None, dewtemp |-> None]
        ELSE halves(tempstr.v, FindFrom(tempstr.v, "/", 1))

\* parse_qnh giving the standard pressure when the report has no pressure group
parse_qnh_with_default(qnhstr) ==
    IF qnhstr.none THEN Some(1013)
    ELSE IF startswith(qnhstr.v, "Q") THEN Some(PyInt(From(qnhstr.v, 2)))
    ELSE Some(inhg_to_hpa(PyInt(From(qnhstr.v, 2))))

\* The altimeter block, lines 734-746, for qnhstr the result of
\* get_field_text("qnh", no_trend_text)
parse_qnh(qnhstr) ==
    IF qnhstr.none THEN None
    ELSE IF startswith(qnhstr.v, "Q") THEN Some(PyInt(From(qnhstr.v, 2)))
    ELSE Some(inhg_to_hpa(PyInt(From(qnhstr.v, 2))))

\* CLOUD_MASK, lines 750-758, in hundredths (0.25 is 25)
CLOUD_MASK ==
    ("FEW" :> 25) @@ ("SCT" :> 50) @@ ("BKN" :> 75) @@ ("OVC" :> 100) @@
    ("SKC" :> 0) @@ ("NSC" :> 0) @@ ("///" :> 0)

\* One pass of the loop of lines 762-789: the layer of a cloud token, or the
\* exception
cloud_record(cloudstr0) ==
    LET layer(cloudstr) ==
            IF Len(cloudstr) # 3 /\ ~IsIntLiteral(From(cloudstr, 4)) THEN Raise("ValueError")
            ELSE IF Slice(cloudstr, 1, 3) \notin DOMAIN CLOUD_MASK THEN Raise("KeyError")
            ELSE [outcome |-> "ok",
                  cloud_mask |-> CLOUD_MASK[Slice(cloudstr, 1, 3)],
                  cloud_height |-> IF Len(cloudstr) = 3 THEN None
                                   ELSE Some(PyInt(From(cloudstr, 4)) * 20),
                  cloud_height_units |-> "m",
                  cloud_type |-> IF Contains(cloudstr0, "CB") THEN Some("cumulonimbus")
                                 ELSE IF Contains(cloudstr0, "TCU") THEN Some("altocumulus")
                                 ELSE None]
    IN  layer(replace(replace(replace(cloudstr0, "CB", ""), "///", ""), "TCU", ""))

\* The cloud block, lines 748-792, for cloudstrs the result of
\* get_field_text("cloud", no_trend_text, mod="all"): None, Some(the layers),
\* or the exception of the first token, in sorted order, that raises
parse_cloud(cloudstrs) ==
    LET cloudgroups(groups) ==
            LET bad == {n \in 1..Len(groups) : groups[n].outcome = "raise"}
            IN  IF bad # {} THEN groups[Least(bad)]
                ELSE Some([n \in 1..Len(groups) |->
                             [cloud_mask |-> groups[n].cloud_mask,
                              cloud_height |-> groups[n].cloud_height,
                              cloud_height_units |-> groups[n].cloud_height_units,
                              cloud_type |-> groups[n].cloud_type]])
        loop(ordered) == cloudgroups([n \in 1..Len(ordered) |-> cloud_record(ordered[n])])
    IN  IF cloudstrs.none THEN None ELSE loop(sorted(cloudstrs.v))

RECURSIVE derived_weather(_, _, _)
\* the loop of lines 809-815 over the layers n, n+1, ...: every layer
\* overwrites the phrase
derived_weather(cloudgroups, n, phrase) ==
    IF n > Len(cloudgroups) THEN phrase
    ELSE LET mask == cloudgroups[n].cloud_mask
         IN  derived_weather(cloudgroups, n + 1,
                IF mask = 0 THEN "Clear Sky"
                ELSE IF 0 < mask /\ mask < 100 THEN "Cloudy"
                ELSE IF mask = 100 THEN "Overcast"
                ELSE phrase)

\* The weather block, lines 794-815, for weather_strs the result of
\* get_field_text("weather", no_trend_text, mod="all"): the list of phrases,
\* or "hang" when a token makes get_weather_description loop for ever
parse_weather(weather_strs, cloudgroups) ==
    LET described(descs) ==
            IF \E n \in 1..Len(descs) : descs[n].hangs THEN [outcome |-> "hang"]
            ELSE [outcome |-> "ok", weather |-> [n \in 1..Len(descs) |-> descs[n].description]]
    IN  IF ~weather_strs.none
        THEN described([n \in 1..Len(weather_strs.v) |->
                           get_weather_description(weather_strs.v[n])])
        ELSE IF cloudgroups.none THEN [outcome |-> "ok", weather |-> <<"Clear Sky">>]
        ELSE [outcome |-> "ok", weather |-> <<derived_weather(cloudgroups.v, 1, "Cloudy")>>]

\* get_field_text(field, t, mod) for every field and mode: the calls that
\* parse_text makes on one text
field_texts(t) ==
    [field \in DOMAIN FIELD_PATTERNS, mod \in {"first", "all"} |-> get_field_text(field, t, mod)]

\* Lines 629-823 of parse_text, for observ the results of get_field_text on
\* no_trend_text: None for a NIL report, else the fields in the order in which
\* the code decodes them, the first exception ending the call
parse_observ(kind, icao, datetime, observ) ==
    LET dataset(wind, temp, cloud, weather) ==
            IF wind.outcome = "raise" THEN wind
            ELSE IF "outcome" \in DOMAIN cloud THEN cloud
            ELSE IF weather.outcome = "hang" THEN weather
            ELSE [outcome |-> "record",
                  dataset |->
                    [kind |-> kind,
                     icao |-> icao,
                     datetime |-> datetime,
                     wind_direction |-> wind.wd,
                     wind_direction_units |-> "degree",
                     wind_speed |-> wind.ws,
                     wind_speed_units |-> "m/s",
                     gust |-> wind.gust,
                     wind_direction_range |-> wind.wdrg,
                     cavok |-> ~observ["cavok", "first"].none,
                     visibility |-> parse_visibility(observ["cavok", "first"],
                                                     observ["vis", "first"]),
                     visibility_units |-> "m",
                     temperature |-> temp.temp,
                     dew_temperature |-> temp.dewtemp,
                     temperature_units |-> "degree C",
                     qnh |-> parse_qnh(observ["qnh", "first"]),
                     qnh_units |-> "hPa",
                     cloud |-> cloud,
                     weather |-> weather.weather,
                     auto |-> ~observ["auto", "first"].none]]
        clouded(wind, temp, cloud) ==
            dataset(wind, temp, cloud, parse_weather(observ["weather", "all"], cloud))
    IN  IF ~observ["nil", "first"].none THEN [outcome |-> "none"]
        ELSE clouded(parse_wind(observ["wind", "first"]),
                     parse_temperature(observ["temp/dew", "first"]),
                     parse_cloud(observ["cloud", "all"]))

\* parse_text(text, year, month) for integers year and month: the record, the
\* value None of a NIL report, the exception raised, or "hang"
parse_text(txt, y, m) ==
    LET timed(fields, day, hour, minute) ==
            IF ~datetime_valid(y, m, day, hour, minute) THEN Raise("ValueError")
            ELSE parse_observ(fields["kind", "first"], fields["icao", "first"],
                              isoformat(y, m, day, hour, minute),
                              field_texts(fields["observ", "first"].v))
        header(fields, timestr) ==
            \* int(timestr[:2]) of None
            IF timestr.none THEN Raise("TypeError")
            ELSE timed(fields, PyInt(Slice(timestr.v, 1, 2)), PyInt(Slice(timestr.v, 3, 4)),
                       PyInt(Slice(timestr.v, 5, 6)))
        text_fields(fields) == header(fields, fields["time", "first"])
    IN  text_fields(field_texts(txt))

---------------------------------------------------------------------------
(* validate_metar, parser.py lines 67-462                                  *)

\* An argument of validate_metar or parse_text: a string, or a value that is
\* not a string (None, a number, a list), of which only its truth matters
PyStr(s) == [type |-> "str", s |-> s]

NonStr(truthy) == [type |-> "other", truthy |-> truthy]

\* The two shapes of the result tuple (is_valid, error_message)
Accept == [valid |-> TRUE, reason |-> None]

\* Reject with the reason left out of the tuple
Reject_without_reason(reason) == [valid |-> FALSE, reason |-> None]

Reject(reason) == [valid |-> FALSE, reason |-> Some(reason)]

\* A check that found nothing wrong
Pass == [valid |-> TRUE, reason |-> None, pass |-> TRUE]

Greatest(S) == CHOOSE x \in S : \A y \in S : x >= y

\* s.rstrip("=")
rstrip_eq(s) ==
    LET keep == {i \in 1..Len(s) : At(s, i) # "="}
    IN  IF keep = {} THEN "" ELSE SubSeq(s, 1, Greatest(keep))

\* s.strip()
strip(s) ==
    LET keep == {i \in 1..Len(s) : At(s, i) \notin Space}
    IN  IF keep = {} THEN "" ELSE SubSeq(s, Least(keep), Greatest(keep))

RECURSIVE SplitFrom(_, _)
\* the fields of s[i..] separated by runs of whitespace
SplitFrom(s, i) ==
    LET begins == {j \in i..Len(s) : At(s, j) \notin Space}
    IN  IF begins = {} THEN <<>>
        ELSE LET a == Least(begins)
                 b == RunEnd(NotCls(Space), s, a)
             IN  <<SubSeq(s, a, b - 1)>> \o SplitFrom(s, b)

\* s.split()
split(s) == SplitFrom(s, 1)

RECURSIVE join(_)
\* " ".join(parts)
join(parts) ==
    IF Len(parts) = 0 THEN ""
    ELSE IF Len(parts) = 1 THEN parts[1]
    ELSE parts[1] \o " " \o join(Tail(parts))

\* x in list
InList(x, list) == \E n \in 1..Len(list) : list[n] = x

\* ^r$ handed to re.match, and r handed to re.search
Whole(r) == Cat(<<Bos, r, Eos>>)

Matches(r, s) == Ends(r, s, 1) # <<>>

Found(r, s) == re_search(r, s).found

\* \bword\b
WordPattern(w) == Cat(<<WordB, Lit(w), WordB>>)

\* line 141 and line 363
becmg_errors ==
    <<"BCNG", "BECNG", "BCEMG", "BECML", "BECMFG", "BECMGG", "BECMGA", "BGECMG",
      "BECGG", "BEEMG", "BEMG", "MECMG", "BECMF", "BECMGM">>

becmg_error_patterns == becmg_errors \o <<"ECMG", "BCECMG">>

trend_keywords == <<"NOSIG", "BECMG", "TEMPO">>

\* has_rmk_of looking for the marker as a word between two spaces
has_rmk_between_spaces(text_clean) == Contains(text_clean, " RMK ")

\* whether the text holds the remarks marker, line 103
has_rmk_of(text_clean) == Contains(text_clean, "RMK")

\* text_clean.split('RMK', 1)[0].strip() or the whole text, lines 104-123
main_part_of(text_clean) ==
    IF has_rmk_of(text_clean)
    THEN strip(SubSeq(text_clean, 1, FindFrom(text_clean, "RMK", 1) - 1))
    ELSE text_clean

\* rmk_part_of taking the part before the marker instead of the part after it
rmk_part_before_marker(text_clean) == main_part_of(text_clean)

\* text_clean.split('RMK', 1)[1].strip(), line 108
rmk_part_of(text_clean) == strip(From(text_clean, FindFrom(text_clean, "RMK", 1) + 3))

\* The characters of the main part outside the allowed set, line 126, in the
\* order of their first occurrence
invalid_chars_of(main_part) ==
    LET allowed == Upper \cup Lower \cup Digit \cup Space \cup {"/", "+", "-"}
        bad == {i \in 1..Len(main_part) : At(main_part, i) \notin allowed}
        first == {i \in bad : \A j \in bad : j < i => At(main_part, j) # At(main_part, i)}
        RECURSIVE Listed(_)
        Listed(S) == IF S = {} THEN ""
                     ELSE "'" \o At(main_part, Least(S)) \o "'" \o
                          (IF S = {Least(S)} THEN "" ELSE ", ") \o Listed(S \ {Least(S)})
    IN  Listed(first)

\* Lines 87-151: the checks made before the text is cut into fields.  The
\* reason of line 128 prints a Python set; its characters are listed here in
\* the order of their first occurrence.
check_text(txt, strict) ==
    LET text_clean == strip(rstrip_eq(txt))
        main_part == main_part_of(text_clean)
        rmk_part == rmk_part_of(text_clean)
        spelling == <<"EMPO", "TRMPO", "ECMG", "BCECMG">>
        should_be == <<"TEMPO", "TEMPO", "BECMG", "BECMG">>
        misspelt == {n \in 1..Len(spelling) : Found(WordPattern(spelling[n]), main_part)}
        becmg_bad == {n \in 1..Len(becmg_errors) : Found(WordPattern(becmg_errors[n]), main_part)}
    IN  IF Contains(text_clean, "\n") \/ Contains(text_clean, "\r")
        THEN Reject("Contains line breaks (should be single line)")
        ELSE IF Found(Cat(<<Cls(Space), Lit("MK"), Cls(Space)>>), text_clean)
        THEN Reject("Spelling error: MK (should be RMK)")
        ELSE IF has_rmk_of(text_clean) /\ strict
        THEN Reject("RMK remarks section not allowed in strict mode")
        ELSE IF has_rmk_of(text_clean) /\ Contains(rmk_part, "BECMG")
        THEN Reject("TREND keyword BECMG found in RMK section (should be before RMK)")
        ELSE IF has_rmk_of(text_clean) /\ Contains(rmk_part, "TEMPO")
        THEN Reject("TREND keyword TEMPO found in RMK section (should be before RMK)")
        ELSE IF invalid_chars_of(main_part) # ""
        THEN Reject("Contains invalid characters: {" \o invalid_chars_of(main_part) \o "}")
        ELSE IF misspelt # {}
        THEN Reject("Spelling error: " \o spelling[Least(misspelt)] \o " (should be " \o
                    should_be[Least(misspelt)] \o ")")
        ELSE IF becmg_bad # {}
        THEN Reject("Spelling error: " \o becmg_errors[Least(becmg_bad)] \o " (should be BECMG)")
        ELSE IF Found(Cat(<<Rep(Cls({"Q"}), 5), Star(Cls({"Q"}))>>), main_part)
        THEN Reject("Contains placeholder (repeated Q)")
        ELSE Pass

\* has_trend of lines 156-169: some trend keyword occurs in the main part
has_trend_of(main_part) == \E n \in 1..Len(trend_keywords) : Contains(main_part, trend_keywords[n])

\* trend_start_idx of lines 157-169 (0-based, -1 when no field is a trend
\* keyword): the inner loop finds the first field that is a trend keyword,
\* the same one for whichever keyword the outer loop is at
trend_start_idx_of(main_part) ==
    LET parts_temp == split(main_part)
        hits == {n \in 1..Len(parts_temp) : InList(parts_temp[n], trend_keywords)}
    IN  IF ~has_trend_of(main_part) \/ hits = {} THEN -1 ELSE Least(hits) - 1

\* whether lines 172-176 cut a trend part off
cuts_trend(main_part) == has_trend_of(main_part) /\ trend_start_idx_of(main_part) > 0

\* main_obs_text, lines 172-179
main_obs_text_of(main_part) ==
    IF cuts_trend(main_part)
    THEN join(SubSeq(split(main_part), 1, trend_start_idx_of(main_part)))
    ELSE main_part

\* trend_parts, lines 172-179
trend_parts_of(main_part) ==
    IF cuts_trend(main_part)
    THEN LET parts_all == split(main_part)
         IN  SubSeq(parts_all, trend_start_idx_of(main_part) + 1, Len(parts_all))
    ELSE <<>>

\* parts[i] of Python: the fields are numbered from 0
Item(parts, i) == parts[i + 1]

\* parts[-1] and parts[-2]
Last(parts) == parts[Len(parts)]

LastButOne(parts) == parts[Len(parts) - 1]

UpperCls == Cls(Upper)

\* icao_pattern matching small letters too
icao_pattern_any_case == Whole(Rep(Cls(Upper \cup Lower), 4))

icao_pattern == Whole(Rep(UpperCls, 4))

time_pattern == Whole(Cat(<<Rep(D, 2), Rep(D, 4), Lit("Z")>>))

wind_pattern ==
    Whole(Alt(<<Cat(<<Alt(<<Rep(D, 3), Lit("VRB")>>), Rep(D, 2),
                      Opt(Cat(<<Lit("G"), Rep(D, 2)>>)), Alt(<<Lit("MPS"), Lit("KT")>>)>>),
                Cat(<<Rep(Lit("/"), 5), Alt(<<Lit("MPS"), Lit("KT")>>)>>)>>))

wind_like_pattern ==
    Whole(Cat(<<RepRange(D, 1, 5), Alt(<<Lit("MPS"), Lit("KT"), Lit("PS")>>)>>))

\* ^\d{5}MPS[A-Z]|\d{5}MPSG\d+$ : the anchors belong to the alternatives
wind_spacing_error ==
    Alt(<<Cat(<<Bos, Rep(D, 5), Lit("MPS"), UpperCls>>),
          Cat(<<Rep(D, 5), Lit("MPSG"), Plus(D), Eos>>)>>)

wind_var_error == Whole(Cat(<<Rep(D, 5), Lit("MPSV"), Plus(D)>>))

wind_var_pattern == Whole(Cat(<<Rep(D, 3), Lit("V"), Rep(D, 3)>>))

qnh_pattern == Whole(Cat(<<Cls({"A", "Q"}), Rep(D, 4)>>))

qnh_missing_pattern == Whole(Cat(<<Cls({"A", "Q"}), Rep(Lit("/"), 4)>>))

\* vartime_pattern that knows FM only
vartime_pattern_from_only == Whole(Cat(<<Lit("FM"), Rep(D, 4)>>))

vartime_pattern == Whole(Cat(<<Alt(<<Lit("FM"), Lit("TL"), Lit("AT")>>), Rep(D, 4)>>))

cloud_prefix == Alt(<<Lit("FEW"), Lit("SCT"), Lit("BKN"), Lit("OVC"), Lit("SKC"), Lit("NSC")>>)

Descriptor ==
    Alt(<<Lit("MI"), Lit("BC"), Lit("PR"), Lit("DR"), Lit("BL"), Lit("SH"), Lit("TS"), Lit("FZ")>>)

Precipitation ==
    Alt(<<Lit("DZ"), Lit("RA"), Lit("SN"), Lit("SG"), Lit("IC"), Lit("PL"), Lit("GR"), Lit("GS")>>)

Obscuration ==
    Alt(<<Lit("BR"), Lit("FG"), Lit("FU"), Lit("VA"), Lit("DU"), Lit("SA"), Lit("HZ")>>)

OtherPhenomenon == Alt(<<Lit("PO"), Lit("SQ"), Lit("FC"), Lit("SS"), Lit("DS")>>)

\* weather_pattern of lines 394-401
weather_pattern ==
    Whole(Cat(<<Opt(Cls({"+", "-"})), Opt(Alt(<<Lit("VC"), Lit("RE")>>)), Opt(Descriptor),
                Plus(Precipitation), Opt(Obscuration), Opt(OtherPhenomenon)>>))

\* the weather pattern of line 437
trend_weather_pattern ==
    Whole(Cat(<<Opt(Cls({"+", "-"})), Opt(Alt(<<Lit("VC"), Lit("RE")>>)), Opt(Descriptor),
                Opt(Precipitation), Opt(Obscuration), Opt(OtherPhenomenon)>>))

\* check_header without the rule for NIL reports
check_header_without_nil(main_obs_text) ==
    LET parts == split(main_obs_text)
        idx1 == IF Len(parts) > 1 /\ Item(parts, 1) = "COR" THEN 2 ELSE 1
        idx2 == idx1 + 1
        idx3 == idx2 + 1
        day == PyInt(Slice(Item(parts, idx2), 1, 2))
    IN  IF Len(main_obs_text) < 20 THEN Reject("METAR text too short")
        ELSE IF Len(parts) < 4 THEN Reject("Missing essential fields")
        ELSE IF Matches(icao_pattern, Item(parts, 0))
        THEN Reject("Missing report type (METAR/SPECI): starts with " \o Item(parts, 0))
        ELSE IF Item(parts, 0) \notin {"METAR", "SPECI", "TAF"}
        THEN Reject("Invalid or missing report type: " \o Item(parts, 0))
        ELSE IF idx1 >= Len(parts) THEN Reject("Missing ICAO code")
        ELSE IF ~Matches(icao_pattern, Item(parts, idx1))
        THEN Reject("Invalid ICAO code format: " \o Item(parts, idx1))
        ELSE IF idx2 >= Len(parts) THEN Reject("Missing time group")
        ELSE IF ~Matches(time_pattern, Item(parts, idx2))
        THEN Reject("Invalid time format: " \o Item(parts, idx2))
        ELSE IF day < 1 \/ day > 31
        THEN Reject("Invalid day in time group: " \o Padded(day, 1))
        ELSE IF idx3 < Len(parts) /\ Item(parts, idx3) = "AUTO"
        THEN [valid |-> TRUE, reason |-> None, idx |-> idx3 + 1]
        ELSE [valid |-> TRUE, reason |-> None, idx |-> idx3]

\* Lines 181-234: length, field count, report type, ICAO code, time group,
\* NIL and AUTO.  A rejection, the acceptance of a NIL report, or the index
\* idx of the field after the header.
check_header(main_obs_text) ==
    LET parts == split(main_obs_text)
        idx1 == IF Len(parts) > 1 /\ Item(parts, 1) = "COR" THEN 2 ELSE 1
        idx2 == idx1 + 1
        idx3 == idx2 + 1
        day == PyInt(Slice(Item(parts, idx2), 1, 2))
    IN  IF Len(main_obs_text) < 20 THEN Reject("METAR text too short")
        ELSE IF Len(parts) < 4 THEN Reject("Missing essential fields")
        ELSE IF Matches(icao_pattern, Item(parts, 0))
        THEN Reject("Missing report type (METAR/SPECI): starts with " \o Item(parts, 0))
        ELSE IF Item(parts, 0) \notin {"METAR", "SPECI", "TAF"}
        THEN Reject("Invalid or missing report type: " \o Item(parts, 0))
        ELSE IF idx1 >= Len(parts) THEN Reject("Missing ICAO code")
        ELSE IF ~Matches(icao_pattern, Item(parts, idx1))
        THEN Reject("Invalid ICAO code format: " \o Item(parts, idx1))
        ELSE IF idx2 >= Len(parts) THEN Reject("Missing time group")
        ELSE IF ~Matches(time_pattern, Item(parts, idx2))
        THEN Reject("Invalid time format: " \o Item(parts, idx2))
        ELSE IF day < 1 \/ day > 31
        THEN Reject("Invalid day in time group: " \o Padded(day, 1))
        ELSE IF idx3 < Len(parts) /\ Item(parts, idx3) = "NIL" THEN Accept
        ELSE IF idx3 < Len(parts) /\ Item(parts, idx3) = "AUTO"
        THEN [valid |-> TRUE, reason |-> None, idx |-> idx3 + 1]
        ELSE [valid |-> TRUE, reason |-> None, idx |-> idx3]

\* Lines 236-261: the wind group at parts[idx].  A rejection, or the index
\* after the wind group and its direction variation.
check_wind(parts, idx) ==
    IF idx >= Len(parts) THEN [valid |-> TRUE, reason |-> None, idx |-> idx]
    ELSE IF Matches(wind_pattern, Item(parts, idx))
    THEN IF idx + 1 < Len(parts) /\ Matches(wind_var_pattern, Item(parts, idx + 1))
         THEN [valid |-> TRUE, reason |-> None, idx |-> idx + 2]
         ELSE [valid |-> TRUE, reason |-> None, idx |-> idx + 1]
    ELSE IF Matches(wind_like_pattern, Item(parts, idx))
    THEN Reject("Invalid wind format: " \o Item(parts, idx))
    ELSE IF Matches(wind_spacing_error, Item(parts, idx))
    THEN Reject("Wind group spacing error: " \o Item(parts, idx))
    ELSE IF Matches(wind_var_error, Item(parts, idx))
    THEN Reject("Wind variation spacing error: " \o Item(parts, idx))
    ELSE [valid |-> TRUE, reason |-> None, idx |-> idx]

\* Lines 263-287: the first field that starts with Q or A and is not a known
\* keyword decides
check_qnh(parts) ==
    LET known_keywords == {"AUTO", "AT"}
        looked_at == {n \in 1..Len(parts) :
                         /\ startswith(parts[n], "Q") \/ startswith(parts[n], "A")
                         /\ ~(\/ parts[n] \in known_keywords
                              \/ startswith(parts[n], "AT") /\ Len(parts[n]) = 6)}
        part == parts[Least(looked_at)]
    IN  IF looked_at = {} THEN Pass
        ELSE IF Matches(qnh_pattern, part) \/ Matches(qnh_missing_pattern, part) THEN Pass
        ELSE Reject("Invalid QNH format: " \o part)

valid_endings == {"NOSIG", "TEMPO", "BECMG", "NIL"}

\* Lines 289-318: the last field of the main observation
check_ending(parts, has_rmk) ==
    LET last_part == Last(parts)
        invalid_endings == {"NOSIT", "NOSI", "OSIG", "DUPE"}
    IN  IF Len(parts) >= 2 /\ (LastButOne(parts) \o Last(parts)) \in {"NOSIG", "TEMPO", "BECMG"}
        THEN Reject("Invalid spacing in ending: " \o LastButOne(parts) \o " " \o Last(parts))
        ELSE IF ~has_rmk /\ Matches(Whole(UpperCls), last_part)
        THEN Reject("Invalid single letter ending: " \o last_part)
        ELSE IF last_part \notin valid_endings /\ last_part \in invalid_endings
        THEN Reject("Invalid ending: " \o last_part)
        ELSE Pass

\* Lines 320-335: isolated single letters and digits
check_isolated(parts) ==
    LET letter_bad(n) ==
            /\ parts[n] \in {"M", "P", "U", "D", "N"}
            /\ n > 1 /\ n < Len(parts)
            /\ ~(startswith(parts[n - 1], "R") \/ isdigit(parts[n + 1]))
        digit_bad(n) == isdigit(parts[n]) /\ Len(parts[n]) = 1
        bad == {n \in 1..Len(parts) : letter_bad(n) \/ digit_bad(n)}
    IN  IF bad = {} THEN Pass
        ELSE IF letter_bad(Least(bad)) THEN Reject("Isolated character: " \o parts[Least(bad)])
        ELSE Reject("Isolated digit: " \o parts[Least(bad)])

\* One pass of the loop of lines 339-408 for the field part: Pass, or the
\* rejection.  The index i that lines 368-369 read is the one the loop of
\* line 321 left behind: the index of the last field.
check_field(part, parts) ==
    LET i == Len(parts) - 1
        check_range == IF 5 < Len(parts) THEN 5 ELSE Len(parts)
        lo == IF i - check_range > 0 THEN i - check_range ELSE 0
        misspelt == {j \in lo..(i - 1) : InList(Item(parts, j), becmg_error_patterns)}
        valid_cloud_types == {"FEW", "SCT", "BKN", "OVC", "SKC", "NSC", "VV"}
        known_fields == {"NOSIG", "CAVOK", "BECMG", "TEMPO"}
    IN  IF \/ Matches(qnh_pattern, part)
           \/ Matches(Whole(Rep(D, 4)), part)
           \/ Matches(Whole(Plus(UpperCls)), part)
           \/ Matches(Whole(Cat(<<Opt(Lit("M")), Plus(D), Lit("/"), Opt(Lit("M")), Plus(D)>>)), part)
           \/ Matches(Cat(<<Bos, Lit("R"), Plus(D)>>), part)
           \/ Matches(wind_var_pattern, part)
           \/ Matches(Cat(<<Bos, cloud_prefix>>), part)
           \/ Matches(Whole(Cat(<<Lit("VV"), Rep(D, 3)>>)), part)
           \/ Matches(Whole(Plus(Lit("/"))), part)
        THEN Pass
        ELSE IF Matches(Whole(RepRange(D, 2, 3)), part)
        THEN Reject("Isolated numeric value: " \o part)
        ELSE IF Matches(vartime_pattern, part)
        THEN IF misspelt # {}
             THEN Reject("Spelling error: " \o Item(parts, Least(misspelt)) \o " (should be BECMG)")
             ELSE Reject("Time indicator " \o Slice(part, 1, 2) \o " must follow BECMG or TEMPO")
        ELSE IF /\ Matches(Cat(<<Bos, RepRange(UpperCls, 2, 3), Rep(D, 3)>>), part)
                /\ ~(\E ct \in valid_cloud_types : startswith(part, ct))
        THEN Reject("Invalid cloud group format: " \o part)
        ELSE IF Len(part) > 6 /\ Found(Cat(<<Rep(UpperCls, 6), Star(UpperCls)>>), part)
        THEN IF part \in known_fields \/ (\E kf \in known_fields : Contains(part, kf)) THEN Pass
             ELSE IF Matches(weather_pattern, part) THEN Pass
             ELSE IF ~Matches(icao_pattern, part) THEN Reject("Suspicious field: " \o part)
             ELSE Pass
        ELSE Pass

\* Lines 337-408: the fields after the header and the wind group
check_fields(parts, idx) ==
    LET bad == {n \in (idx + 1)..Len(parts) : ~check_field(parts[n], parts).valid}
    IN  IF bad = {} THEN Pass ELSE check_field(parts[Least(bad)], parts)

\* One pass of the loop of lines 415-450 for trend_parts[n]
check_trend_part(trend_parts, n) ==
    LET part == trend_parts[n]
        prev_keyword_is_None == \A k \in 1..(n - 1) : trend_parts[k] \notin {"BECMG", "TEMPO"}
    IN  IF part \in {"BECMG", "TEMPO"} THEN Pass
        ELSE IF Matches(vartime_pattern, part)
        THEN IF prev_keyword_is_None
             THEN Reject("Time indicator " \o part \o " without BECMG/TEMPO")
             ELSE Pass
        ELSE IF part = "NOSIG" THEN Pass
        ELSE IF \/ Matches(Whole(Cat(<<Alt(<<Lit("VRB"), Rep(D, 3)>>), Rep(D, 2),
                                       Opt(Cat(<<Lit("G"), Rep(D, 2)>>)),
                                       Alt(<<Lit("MPS"), Lit("KT")>>)>>)), part)
                \/ Matches(Whole(Rep(D, 4)), part)
                \/ Matches(Cat(<<Bos, cloud_prefix>>), part)
                \/ part \in {"NSW", "CAVOK"}
                \/ Matches(trend_weather_pattern, part)
        THEN Pass
        ELSE IF Matches(Cat(<<Bos, Lit("R"), Rep(D, 2)>>), part)
        THEN Reject("RVR not allowed in TREND: " \o part)
        ELSE IF Matches(qnh_pattern, part) THEN Reject("QNH not allowed in TREND: " \o part)
        ELSE IF Matches(Whole(Cat(<<Opt(Lit("M")), Rep(D, 2), Lit("/"), Opt(Lit("M")), Rep(D, 2)>>)), part)
        THEN Reject("Temperature not allowed in TREND: " \o part)
        ELSE IF startswith(part, "WS") THEN Reject("Wind shear not allowed in TREND: " \o part)
        ELSE IF Matches(Whole(Cat(<<Lit("PROB"), Rep(D, 2)>>)), part)
        THEN Reject("Probability group not allowed in TREND: " \o part)
        ELSE Pass

\* Lines 410-450: the trend part
check_trend(has_trend, trend_parts) ==
    LET bad == {n \in 1..Len(trend_parts) : ~check_trend_part(trend_parts, n).valid}
    IN  IF ~has_trend \/ trend_parts = <<>> \/ bad = {} THEN Pass
        ELSE check_trend_part(trend_parts, Least(bad))

\* Lines 452-460: two short fields of capital letters at the end
check_last_two(parts) ==
    LET last_two == LastButOne(parts) \o " " \o Last(parts)
    IN  IF /\ Len(parts) >= 2
           /\ Matches(Whole(Cat(<<RepRange(UpperCls, 1, 2), Plus(Cls(Space)),
                                  RepRange(UpperCls, 1, 2)>>)), last_two)
           /\ LastButOne(parts) \notin valid_endings /\ Last(parts) \notin valid_endings
        THEN Reject("Invalid ending: " \o last_two)
        ELSE Pass

\* validate_metar with the isolated fields looked for before the ending
validate_metar_isolated_first(arg, strict) ==
    IF arg.type # "str" THEN Reject("Empty or invalid input")
    ELSE IF arg.s = "" THEN Reject("Empty or invalid input")
    ELSE
    LET text_clean == strip(rstrip_eq(arg.s))
        main_part == main_part_of(text_clean)
        main_obs_text == main_obs_text_of(main_part)
        parts == split(main_obs_text)
        first == check_text(arg.s, strict)
        header == check_header(main_obs_text)
        wind == check_wind(parts, header.idx)
        qnh == check_qnh(parts)
        ending == check_ending(parts, has_rmk_of(text_clean))
        isolated == check_isolated(parts)
        fields == check_fields(parts, wind.idx)
        trend == check_trend(has_trend_of(main_part), trend_parts_of(main_part))
        last_two == check_last_two(parts)
    IN  IF ~first.valid THEN first
        ELSE IF "idx" \notin DOMAIN header THEN header
        ELSE IF ~wind.valid THEN wind
        ELSE IF ~qnh.valid THEN qnh
        ELSE IF ~isolated.valid THEN isolated
        ELSE IF ~ending.valid THEN ending
        ELSE IF ~fields.valid THEN fields
        ELSE IF ~trend.valid THEN trend
        ELSE IF ~last_two.valid THEN last_two
        ELSE Accept

\* validate_metar(text, strict_mode): the checks in the order of the source,
\* the first rejection returned
validate_metar(arg, strict) ==
    IF arg.type # "str" THEN Reject("Empty or invalid input")
    ELSE IF arg.s = "" THEN Reject("Empty or invalid input")
    ELSE
    LET text_clean == strip(rstrip_eq(arg.s))
        main_part == main_part_of(text_clean)
        main_obs_text == main_obs_text_of(main_part)
        parts == split(main_obs_text)
        first == check_text(arg.s, strict)
        header == check_header(main_obs_text)
        wind == check_wind(parts, header.idx)
        qnh == check_qnh(parts)
        ending == check_ending(parts, has_rmk_of(text_clean))
        isolated == check_isolated(parts)
        fields == check_fields(parts, wind.idx)
        trend == check_trend(has_trend_of(main_part), trend_parts_of(main_part))
        last_two == check_last_two(parts)
    IN  IF ~first.valid THEN first
        ELSE IF "idx" \notin DOMAIN header THEN header
        ELSE IF ~wind.valid THEN wind
        ELSE IF ~qnh.valid THEN qnh
        ELSE IF ~ending.valid THEN ending
        ELSE IF ~isolated.valid THEN isolated
        ELSE IF ~fields.valid THEN fields
        ELSE IF ~trend.valid THEN trend
        ELSE IF ~last_two.valid THEN last_two
        ELSE Accept


---------------------------------------------------------------------------
(* The program as a state machine: a report is submitted with the year and *)
(* month of its time group and a strictness; validate_metar and parse_text *)
(* are each called on it once, in either order.  The variable patterns is  *)
(* the module-level table FIELD_PATTERNS, which every call reads; the      *)
(* variable calls is the log of a client that calls the functions again    *)
(* and again.                                                              *)

\* The result of a call that has not been made
NotCalled == [called |-> FALSE]

\* the largest number of "=" signs that end a submitted report
MaxEndMarks == 1

RECURSIVE EndMarks(_)
EndMarks(n) == IF n = 0 THEN "" ELSE "=" \o EndMarks(n - 1)

\* kind, station and time group of the submitted reports; the second has no
\* kind and the third no time group
Headers == {"METAR ZBAA 311400Z", "ZBAA 311400Z", "METAR ZBAA"}

\* the observation fields of the submitted reports
Bodies ==
    {" NIL",
     " 01002MPS CAVOK 14/12 Q1009",
     " 02020G30KT 0800 -RA OVC010A M01/M02 A2992",
     " 00000MPS 9999 FEW020CB Q102"}

\* the trend and remarks sections of the submitted reports
Tails ==
    {"", " NOSIG", " BECMG FM1200 3000", " RMK OVC010", " RMK TEMPO 3000",
     " NOSIG RMK BECMG", " TEMPO 3000 RMK A2992", " RMK WIND 020V080"}

\* reports that break one rule of validate_metar each
Malformed ==
    {"short",
     "RMK TEMPO",
     "METAR ZBAA 311400Z 01002MPS\nRMK BECMG",
     "METAR ZBAA 311400Z MK 9999 RMK TEMPO",
     "METAR ZBAA 311400Z 01002MPS 9999 ? Q1009",
     "METAR ZBAA 311400Z 01002MPS 9999 Q1009 BCNG 3000",
     "METAR ZBAA 311400Z 01002MPS 9999 Q1009 QQQQQ",
     "METAR ZBAA 321400Z 01002MPS 9999 Q1009",
     "METAR ZBA 311400Z 01002MPS 9999",
     "METAR ZBAA 311400Z 0100MPS 9999 Q1009",
     "METAR ZBAA 311400Z 01002MPS 9999 Q1009 NOSIT",
     "METAR ZBAA 311400Z 01002MPS 9999 Q1009 A B",
     "METAR ZBAA 311400Z 01002MPS 9999 M Q1009 NOSIG",
     "METAR ZBAA 311400Z 01002MPS 9999 12 Q1009",
     "METAR ZBAA 311400Z 01002MPS 9999 Q1009 FM1200",
     "METAR ZBAA 311400Z 01002MPS 9999 XYZ010 Q1009",
     "SPECI COR ZBAA 311400Z AUTO 01002MPS 020V080 9999 Q1009 TEMPO FM1200 Q1010"}

Reports ==
    {h \o b \o t \o EndMarks(n) :
        h \in Headers, b \in Bodies, t \in Tails, n \in 0..MaxEndMarks}
    \cup {r \o EndMarks(n) : r \in Malformed, n \in 0..MaxEndMarks}

\* the arguments handed to the two functions: reports, the empty string and
\* values that are not strings
Arguments == {PyStr(r) : r \in Reports} \cup {PyStr(""), NonStr(TRUE), NonStr(FALSE)}

Years == {2024}

Months == {1, 2}

Init ==
    /\ text \in Arguments
    /\ year \in Years
    /\ month \in Months
    /\ strict_mode \in BOOLEAN
    /\ verdict = NotCalled
    /\ record = NotCalled
    /\ patterns = FIELD_PATTERNS
    /\ calls = <<>>

\* validate_metar(text, strict_mode) is called
Validate ==
    /\ verdict = NotCalled
    /\ verdict' = validate_metar(text, strict_mode)
    /\ UNCHANGED <<text, year, month, strict_mode, record, patterns, calls>>

\* parse_text(text, year, month) is called; re.search raises TypeError when
\* the text is not a string
Parse ==
    /\ record = NotCalled
    /\ record' = IF text.type = "str" THEN parse_text(text.s, year, month)
                 ELSE Raise("TypeError")
    /\ UNCHANGED <<text, year, month, strict_mode, verdict, patterns, calls>>

Next == Validate \/ Parse

Spec == Init /\ [][Next]_vars

---------------------------------------------------------------------------
(* The same program on families of reports that differ in one field        *)

\* InitOn(reports): one of the reports, dated January 2024, default strictness
InitOn(reports) ==
    /\ text \in {PyStr(r) : r \in reports}
    /\ year = 2024
    /\ month = 1
    /\ strict_mode = FALSE
    /\ verdict = NotCalled
    /\ record = NotCalled
    /\ patterns = FIELD_PATTERNS
    /\ calls = <<>>

\* wind groups: every two-digit speed with the bearings 000 and 020 and a
\* sample of speeds with the bearings VRB and 360, in both units; and every
\* two-digit gust on the speed 20, in both units
WindTokens ==
    {d \o Padded(k, 2) \o u : d \in {"000", "020"}, k \in 0..99, u \in {"KT", "MPS"}}
    \cup {d \o Padded(k, 2) \o u : d \in {"VRB", "360"}, k \in {0, 2, 9}, u \in {"KT", "MPS"}}
    \cup {"020" \o "20" \o "G" \o Padded(g, 2) \o u : g \in 0..99, u \in {"KT", "MPS"}}
    \cup {"21009G14MPS", "00000G10KT"}

WindReports == {"METAR ZBAA 311400Z " \o w \o " 9999 14/12 Q1009" : w \in WindTokens}

InitWind == InitOn(WindReports)

SpecWind == InitWind /\ [][Next]_vars

\* pressure groups: Q or A with four digits
PressureValues == {0, 1, 102, 980, 2992, 3001, 9999} \cup 1000..1030

PressureTokens == {p \o Padded(v, 4) : p \in {"Q", "A"}, v \in PressureValues}

PressureReports ==
    {"METAR ZBAA 311400Z 01002MPS 9999 14/12 " \o q : q \in PressureTokens}
    \cup {"METAR ZBAA 311400Z 01002MPS 9999 14/12", "METAR ZBAA 311400Z 01002MPS 9999 14/12 NOSIG"}

InitPressure == InitOn(PressureReports)

SpecPressure == InitPressure /\ [][Next]_vars

\* visibility groups: four digits, or one to three digits of statute miles
VisibilityTokens ==
    {Padded(v, 4) : v \in {0, 1, 50, 800, 2200, 3000, 5000, 9000, 9998, 9999}}
    \cup {Padded(n, 1) \o "SM" : n \in 0..100}
    \cup {Padded(n, 2) \o "SM" : n \in 0..9}

\* the reports with a visibility group, and those without one
VisibilityReports ==
    {"METAR ZBAA 311400Z 01002MPS " \o v \o " 14/12 Q1009" \o t :
        v \in VisibilityTokens \cup {"CAVOK"}, t \in {"", " TEMPO 3000"}}
    \cup {"METAR ZBAA 311400Z 01002MPS" \o f \o t :
        f \in {" 14/12 Q1009", " FEW020 14/12 Q1009"}, t \in {"", " TEMPO 3000", " NOSIG"}}

InitVisibility == InitOn(VisibilityReports)

SpecVisibility == InitVisibility /\ [][Next]_vars

\* cloud groups: amount, height or none, and the letters that follow
CloudAmounts == {"FEW", "SCT", "BKN", "OVC", "SKC", "NSC"}

CloudHeights == {"", "010", "026"}

CloudSuffixes == {"", "CB", "TCU", "A"}

CloudReports ==
    {"METAR ZBAA 311400Z 01002MPS 9999 " \o a \o h \o x \o " 14/12 Q1009" :
        a \in CloudAmounts, h \in CloudHeights, x \in CloudSuffixes}

InitCloud == InitOn(CloudReports)

SpecCloud == InitCloud /\ [][Next]_vars

\* A client that calls the three functions one after the other, in any order
\* and with any of a few arguments, and keeps the results
MaxCalls == 3

PurityTexts ==
    {"METAR ZBAA 311400Z 02020G30KT 0800 -RA FEW020CB M01/M02 A2992 NOSIG=",
     "ZBAA 311400Z 01002MPS CAVOK RMK TEMPO"}

PurityFields == {"wind"}

\* the entry of the log for one call
Called(function, args, result) == [function |-> function, args |-> args, result |-> result]

\* validate_metar(t, s) is called: it reads its arguments only
CallValidate ==
    /\ Len(calls) < MaxCalls
    /\ \E t \in PurityTexts, s \in BOOLEAN :
          calls' = Append(calls, Called("validate_metar", <<t, s>>, validate_metar(PyStr(t), s)))
    /\ UNCHANGED <<text, year, month, strict_mode, verdict, record, patterns>>

\* parse_text(t, y, 1) is called: it reads its arguments, and the table
\* through get_field_text
CallParse ==
    /\ Len(calls) < MaxCalls
    /\ \E t \in PurityTexts, y \in Years :
          calls' = Append(calls, Called("parse_text", <<t, y, 1>>, parse_text(t, y, 1)))
    /\ UNCHANGED <<text, year, month, strict_mode, verdict, record, patterns>>

\* get_field_text with the entry of the table used up by the call
CallGetFieldText_using_up ==
    /\ Len(calls) < MaxCalls
    /\ \E field \in PurityFields, t \in PurityTexts, mod \in {"first", "all"} :
          /\ calls' = Append(calls, Called("get_field_text", <<field, t, mod>>,
                                           get_field_text(field, t, mod)))
          /\ patterns' = [patterns EXCEPT ![field] = PatNil]
    /\ UNCHANGED <<text, year, month, strict_mode, verdict, record>>

\* get_field_text(field, t, mod) is called: it reads its arguments and the
\* entry of the table, and writes nothing
CallGetFieldText ==
    /\ Len(calls) < MaxCalls
    /\ \E field \in PurityFields, t \in PurityTexts, mod \in {"first", "all"} :
          calls' = Append(calls, Called("get_field_text", <<field, t, mod>>,
                                       get_field_text(field, t, mod)))
    /\ UNCHANGED <<text, year, month, strict_mode, verdict, record, patterns>>

NextCalls == CallValidate \/ CallParse \/ CallGetFieldText

\* the client submits no report to Validate and Parse: text stays as it is
InitCalls == InitOn({"METAR ZBAA 311400Z NIL"})

SpecCalls == InitCalls /\ [][NextCalls]_vars

\* reports with and without each optional group: wind (with a variable
\* bearing, calm, a gust, a variation of the bearing), visibility or CAVOK,
\* cloud, temperature and pressure
OptionalWinds ==
    {"", " 01002MPS", " VRB02KT", " 00000MPS", " 02020G30KT", " 01002MPS 350V040"}

OptionalVisibilities == {"", " 9999", " 0800", " 10SM", " CAVOK"}

OptionalClouds == {"", " FEW020", " NSC"}

OptionalTemperatures == {"", " 14/12", " M01/M02"}

OptionalPressures == {"", " Q1009", " A2992"}

OptionalReports ==
    {"METAR ZBAA 311400Z" \o w \o v \o c \o t \o q :
        w \in OptionalWinds, v \in OptionalVisibilities, c \in OptionalClouds,
        t \in OptionalTemperatures, q \in OptionalPressures}

InitOptional == InitOn(OptionalReports)

SpecOptional == InitOptional /\ [][Next]_vars

\* Reports handed to validate_metar alone, in both modes.  The first field
\* of a report: a kind, a station where the kind should be, and other words
FirstFields ==
    {"METAR", "SPECI", "TAF", "ZBAA", "KJFK", "TAFF", "Zbaa", "metar", "METARS", "MET",
     "311400Z", "NOSIG", "COR"}

HeaderReports ==
    {f \o r \o t :
        f \in FirstFields,
        r \in {" ZBAA 311400Z 01002MPS CAVOK 14/12 Q1009", " 311400Z 01002MPS CAVOK 14/12 Q1009",
               " 311400Z", " ZBAA 311400Z 9999"},
        t \in {"", " NOSIG", " NOSIG="}}

\* fields that start with Q or A: pressure groups, damaged pressure groups
\* and the keywords that validate_metar lets through
PressureLikeFields ==
    {"Q1009", "A2992", "Q////", "A////", "Q102NOSIG", "Q105", "Q10", "Q101", "Q1016N",
     "A299", "QNH", "AT", "AT1200", "ATABCD", "AUTO"}

\* reports with one such field, alone or after a pressure group or a keyword
PressureCheckReports ==
    {"METAR ZBAA 311400Z" \o a \o " 01002MPS 9999 14/12" \o e \o " " \o q \o t :
        a \in {"", " AUTO"}, e \in {"", " Q1009", " A////", " AT1200"},
        q \in PressureLikeFields, t \in {"", " NOSIG"}}
    \cup {"METAR AGGH 311400Z 01002MPS 9999 14/12 Q1009"}

\* NIL reports: a kind, COR or not, a station, a time group with a day in or
\* out of 1..31, NIL, and whatever follows
NilReports ==
    {k \o c \o " ZBAA " \o d \o "1400Z NIL" \o r \o e :
        k \in {"METAR", "SPECI", "TAF"}, c \in {"", " COR"}, d \in {"01", "31", "00", "32"},
        r \in {"", " 0003MPS Q10 5", " NOSIG", " TEMPO Q1010", " RMK TEST", " RMK TEMPO", " ?"},
        e \in {"", "="}}

\* reports with and without a remarks section after a main part that is
\* well-formed, or not, or ends with a single letter
RemarksReports ==
    {m \o r \o e :
        m \in {"METAR ZBAA 311400Z 01002MPS CAVOK 14/12 Q1009",
               "METAR ZBAA 311400Z 01002MPS CAVOK 14/12 Q1009 NOSIG",
               "METAR ZBAA 311400Z 01002MPS 9999 FEW020 14/12 Q1009 N",
               "METAR ZBAA 311400Z 0100MPS 9999 Q1009",
               "METAR ZBAA 311400Z NIL"},
        r \in {"", " RMK", "RMK", " RMK WIND 020V080", " RMK ?!", " RMK MK X", " RMK TEMPO",
               " RMK RMK QFE 1001"},
        e \in {"", "="}}

ValidationReports ==
    HeaderReports \cup PressureCheckReports \cup NilReports \cup RemarksReports

InitValidation ==
    /\ text \in {PyStr(r) : r \in ValidationReports}
    /\ year = 2024
    /\ month = 1
    /\ strict_mode \in BOOLEAN
    /\ verdict = NotCalled
    /\ record = NotCalled
    /\ patterns = FIELD_PATTERNS
    /\ calls = <<>>

SpecValidation == InitValidation /\ [][Validate]_vars

\* Reports with a trend part: a trend keyword, a time indicator or none, and
\* one more field, which is an element of a trend, a field that a trend may
\* not hold, or a word that is neither
TrendFields ==
    {"", "18005MPS", "VRB02G10KT", "3000", "BKN010", "NSC", "NSW", "CAVOK", "-RA", "+TSRA",
     "BR", "R18/1000", "Q1010", "12/10", "M01/M02", "WS", "WSHFT", "PROB30", "DUPE",
     "CHECK", "JHHHHH", "XYZ", "123", "AT1400", "TEMPO", "NOSIG"}

TrendReports ==
    {"METAR ZBAA 311400Z 01002MPS CAVOK 14/12 Q1009" \o k \o i \o " " \o f :
        k \in {" TEMPO", " BECMG", " NOSIG"}, i \in {"", " FM1200", " TL1300"},
        f \in TrendFields}

\* reports with time indicators in the main observation, in the trend part
\* and in the remarks
TimeIndicatorReports ==
    {"METAR ZBAA 311400Z" \o a \o b \o t :
        a \in {" 01002MPS", " FM1200", " AT1400"},
        b \in {" CAVOK 14/12 Q1009", " 9999 TL1300 Q1009"},
        t \in {"", " NOSIG", " NOSIG AT1400", " NOSIG TEMPO AT1400", " TEMPO FM1200 TL1300 3000",
               " BECMG TL1300", " BCNG FM1200", " TEMPOX FM1200", " RMK FM1200",
               " TEMPO 3000 RMK TL1300"}}
    \cup {"METAR ZBAA 311400Z NIL FM1200"}

InitTrend ==
    /\ text \in {PyStr(r) : r \in TrendReports \cup TimeIndicatorReports}
    /\ year = 2024
    /\ month = 1
    /\ strict_mode \in BOOLEAN
    /\ verdict = NotCalled
    /\ record = NotCalled
    /\ patterns = FIELD_PATTERNS
    /\ calls = <<>>

SpecTrend == InitTrend /\ [][Validate]_vars

\* Reports with a field in the place of the wind group that is a wind group,
\* or a damaged one: a digit missing or too many, a damaged unit, a gust
\* without its digits, a stray letter, a neighbour stuck to the group
WindPlaceFields ==
    {"01002MPS", "VRB02KT", "02020G30KT", "/////MPS", "0003MPS", "1003MPS", "0100MPS", "1KT",
     "00000PS", "01006M", "000G", "1800C", "010006MPS", "01002KTS", "01002MP", "01002G5MPS",
     "01002G15", "01002KMH", "01002MPSH4000", "30007MPSG13", "18003MPSV220", "9999"}

WindPlaceReports ==
    {"METAR ZBAA 311400Z" \o a \o " " \o w \o r :
        a \in {"", " AUTO"}, w \in WindPlaceFields, r \in {" 9999 14/12 Q1009 NOSIG", " CAVOK"}}

\* reports that end with NOSIG, with a damaged NOSIG, or with other short
\* words, before the end mark or the remarks
EndingFields ==
    {"NOSIG", "NOSI", "NOSIT", "OSIG", "NNOSIG", "NOSSIG", "NOAISIG", "NOSZ", "NOSI G",
     "NOS IG", "NOAI SIG", "N OSIG", "NOSIG G", "DUPE", "TE G", "TEM PO", "G"}

EndingReports ==
    {"METAR ZBAA 311400Z 01002MPS CAVOK 14/12 Q1009 " \o e \o r :
        e \in EndingFields, r \in {"", "=", " RMK X"}}

InitGroups ==
    /\ text \in {PyStr(r) : r \in WindPlaceReports \cup EndingReports}
    /\ year = 2024
    /\ month = 1
    /\ strict_mode \in BOOLEAN
    /\ verdict = NotCalled
    /\ record = NotCalled
    /\ patterns = FIELD_PATTERNS
    /\ calls = <<>>

SpecGroups == InitGroups /\ [][Validate]_vars

\* Reports with a field of one character, a digit or a letter, in one place:
\* before the wind group, after it (before the visibility, which is all
\* digits), after a runway group, after the temperature, at the end of the
\* main observation, or after the trend keyword
IsolatedTokens == {"9", "3", "M", "N", "U", "G", "S", "X"}

IsolatedPlaces ==
    {<<" ", " 01002MPS 9999 R18/1000 14/12 Q1009">>,
     <<" 01002MPS ", " 9999 R18/1000 14/12 Q1009">>,
     <<" 01002MPS 9999 R18/1000 ", " 14/12 Q1009">>,
     <<" 01002MPS 9999 R18/1000 14/12 ", " Q1009">>,
     <<" 01002MPS 9999 R18/1000 14/12 Q1009 ", "">>,
     <<" 01002MPS 9999 R18/1000 14/12 Q1009 NOSIG ", "">>,
     <<" 01002MPS 9999 R18/1000 14/12 Q1009 TEMPO ", " 3000">>,
     <<" NIL ", "">>}

IsolatedReports ==
    {"METAR ZBAA 311400Z" \o p[1] \o c \o p[2] \o r :
        p \in IsolatedPlaces, c \in IsolatedTokens, r \in {"", " =", " RMK X"}}
    \cup {"METAR ZBAA 311400Z 01002MPS 9999 R18/1000 14/12 Q1009" \o r :
             r \in {"", " NOSIG", " RMK 9", " RMK G"}}

InitIsolated ==
    /\ text \in {PyStr(r) : r \in IsolatedReports}
    /\ year = 2024
    /\ month = 1
    /\ strict_mode \in BOOLEAN
    /\ verdict = NotCalled
    /\ record = NotCalled
    /\ patterns = FIELD_PATTERNS
    /\ calls = <<>>

SpecIsolated == InitIsolated /\ [][Validate]_vars

\* Reports that differ in their station only: stations that begin with A or
\* Q among others, with every report kind, in front of bodies with a
\* pressure group, without one, with a damaged one, with a damaged wind
\* group, and of NIL
Stations == {"ZBAA", "KJFK", "LFPG", "AGGH", "QABC", "AYPY"}

StationReports ==
    {k \o " " \o s \o b :
        k \in {"METAR", "SPECI", "METAR COR", "TAF"}, s \in Stations,
        b \in {" 311400Z 01002MPS CAVOK 14/12 Q1009 NOSIG",
               " 311400Z AUTO 01002MPS 9999 14/12 A2992=",
               " 311400Z 01002MPS 9999 14/12",
               " 311400Z 0003MPS CAVOK 14/12 Q1009",
               " 311400Z 01002MPS CAVOK 14/12 Q10",
               " 311400Z NIL"}}

\* Reports that break several rules at once: the report kind is missing, the
\* wind group has four digits, the pressure group has two, EMPO stands for
\* TEMPO, a single digit or a number of three digits stands among the fields,
\* the main observation ends with a damaged NOSIG, a single letter or two
\* short words, the trend part holds a runway group
OrderReports ==
    {k \o "ZBAA 311400Z " \o w \o " CAVOK 14/12 " \o q \o m \o d \o f \o e \o t :
        k \in {"METAR ", ""}, w \in {"01002MPS", "0003MPS"}, q \in {"Q1009", "Q10"},
        m \in {"", " EMPO"}, d \in {"", " 9"}, f \in {"", " 003"},
        e \in {"", " TE GG", " NOSI", " G"}, t \in {"", " TEMPO R18/1000", " NOSIG"}}

InitCascade == InitOn(StationReports \cup OrderReports)

SpecCascade == InitCascade /\ [][Validate]_vars

\* A client of get_field_text: it extracts one field of the submitted text
\* in one or both modes.  The texts are reports in which fields occur once,
\* several times or not at all, a forecast, a NIL report, the empty text, a
\* text without its kind and with "=" inside it, a text with a line break, a
\* text with two spaces between fields, and two reports in one text; the
\* fields are those of the table and two that the documentation of
\* get_field_text names and the table lacks.
MaxExtracts == 2

ExtractTexts ==
    {"METAR ZSNJ 030500Z 24002MPS 330V030 1000 R06/1300U R07/1300N BR FEW005 SCT020 15/14 Q1017 NOSIG=",
     "SPECI COR ZBAA 311400Z AUTO VRB02G10KT CAVOK +TSRA VV002 WS R18 M01/M02 A2992 TEMPO FM1200 TL1300 3000 BECMG AT1400 NSW=",
     "TAF AMD ZBAA 311400Z 010606 01002MPS 9999 TX12/12Z TN02/21Z CNL",
     "METAR ZBAA 311400Z NIL=",
     "",
     "ZBAA 311400Z 01002MPS Q=1009=",
     "METAR ZBCZ 161200Z AUTO 22004MPS 8000 // ////// 21/19 Q1008=",
     "METAR ZBAA 311400Z 01002MPS\nCAVOK NOSIG=",
     "NOSIG METAR ZBAA 311400Z",
     "METAR ZBAA  311400Z 01002MPS 3000 -RA  BR  Q1009 ",
     "METAR ZBAA 311400Z 01002MPS NOSIG METAR ZBAA 311500Z 02002MPS TEMPO 3000="}

ExtractFields == DOMAIN FIELD_PATTERNS \cup {"nsw", "prob"}

\* get_field_text(field, text, mod) is called on the submitted text; a second
\* call extracts the same field
ExtractField ==
    /\ Len(calls) < MaxExtracts
    /\ \E field \in ExtractFields, mod \in {"first", "all"} :
          /\ calls # <<>> => calls[1].args[1] = field
          /\ calls' = Append(calls, Called("get_field_text", <<field, text.s, mod>>,
                                           get_field_text(field, text.s, mod)))
    /\ UNCHANGED <<text, year, month, strict_mode, verdict, record, patterns>>

InitExtract == InitOn(ExtractTexts)

SpecExtract == InitExtract /\ [][ExtractField]_vars

\* get_weather_description(code) step by step.  The token is the submitted
\* text; record is the position of the call: not called, in the peeling loop
\* of lines 590-596 with what is left of the code and the description so
\* far, or returned.  The tokens are those the weather pattern can match (a
\* mark of intensity, of vicinity or of recency, a descriptor, a
\* precipitation, an obscuration, another phenomenon, each or none), tokens
\* of one to three codes of the table in any order, and tokens that hold
\* letters that are no code of the table.
WeatherMarks == {"", "+", "-", "VC", "RE"}

Descriptors == {"", "MI", "BC", "PR", "DR", "BL", "SH", "TS", "FZ"}

Precipitations == {"", "DZ", "RA", "SN", "SG", "IC", "PL", "GR", "GS"}

Obscurations == {"", "BR", "FG", "FU", "VA", "DU", "SA", "HZ"}

OtherPhenomena == {"", "PO", "SQ", "FC", "SS", "DS"}

PatternTokens ==
    {m \o d \o p : m \in WeatherMarks, d \in Descriptors, p \in Precipitations}
    \cup {d \o p \o o \o x :
             d \in {"", "SH"}, p \in {"", "RA"}, o \in Obscurations, x \in OtherPhenomena}

TableTokens ==
    {m \o WEATHER_KEYS[a] \o b \o c :
        m \in {"", "+", "-"}, a \in 1..Len(WEATHER_KEYS),
        b \in {"", "UP", "SH"}, c \in {"", "RE"}}

UnknownTokens == {"XX", "RAX", "+RAXX", "R", "-+RA", "ra", "RA ", "TSRA+", "NSW"}

WeatherTokens == PatternTokens \cup TableTokens \cup UnknownTokens

\* lines 546-553 and 589: the intensity is taken off the code and the
\* description starts empty
Describe ==
    /\ record = NotCalled
    /\ record' = [outcome |-> "peeling",
                  intensity |-> IF startswith(text.s, "+") THEN "Heavy "
                                ELSE IF startswith(text.s, "-") THEN "Light " ELSE "",
                  code |-> IF startswith(text.s, "+") \/ startswith(text.s, "-")
                           THEN From(text.s, 2) ELSE text.s,
                  description |-> ""]
    /\ UNCHANGED <<text, year, month, strict_mode, verdict, patterns, calls>>

\* lines 590-596: one pass of the while loop.  The for loop takes the first
\* key of the table that the code starts with off the code; when the code
\* starts with no key the pass changes nothing.
PeelPass ==
    /\ "outcome" \in DOMAIN record /\ record.outcome = "peeling"
    /\ Len(record.code) > 0
    /\ record' = IF FirstKey(record.code) = 0 THEN record
                 ELSE [record EXCEPT
                          !.code = From(@, Len(WEATHER_KEYS[FirstKey(record.code)]) + 1),
                          !.description =
                              @ \o weather_codes[WEATHER_KEYS[FirstKey(record.code)]] \o " "]
    /\ UNCHANGED <<text, year, month, strict_mode, verdict, patterns, calls>>

\* line 598: the loop is left with the code used up
ReturnDescription ==
    /\ "outcome" \in DOMAIN record /\ record.outcome = "peeling"
    /\ Len(record.code) = 0
    /\ record' = [outcome |-> "description",
                  description |-> record.intensity \o strip_trailing(record.description)]
    /\ UNCHANGED <<text, year, month, strict_mode, verdict, patterns, calls>>

NextDescribe == Describe \/ PeelPass \/ ReturnDescription

InitDescribe == InitOn(WeatherTokens)

\* a call that has begun goes on: the interpreter runs the next pass
SpecDescribe == InitDescribe /\ [][NextDescribe]_vars /\ WF_vars(NextDescribe)

\* Reports with no cloud group or with one, two or three different cloud
\* groups in every order, with a weather group before the cloud groups or
\* none, with a group of recent weather after the pressure group or none,
\* and with a trend part or none
LayerTokens == {"FEW005", "SCT020", "BKN030", "OVC010", "NSC"}

LayerSequences ==
    {<<>>} \cup {<<a>> : a \in LayerTokens}
    \cup {<<a, b>> : a \in LayerTokens, b \in LayerTokens}
    \cup {<<a, b, c>> : a \in LayerTokens, b \in LayerTokens, c \in LayerTokens}

RECURSIVE Spaced(_)
\* the tokens of a sequence, a space before each
Spaced(tokens) == IF tokens = <<>> THEN "" ELSE " " \o Head(tokens) \o Spaced(Tail(tokens))

LayerReports ==
    {"METAR ZBAA 311400Z 01002MPS 3000" \o w \o Spaced(l) \o " 14/12 Q1009" \o r \o t :
        w \in {"", " -RA"},
        l \in {q \in LayerSequences : \A i, j \in DOMAIN q : i # j => q[i] # q[j]},
        r \in {"", " RERA"}, t \in {"", " NOSIG="}}

InitLayers == InitOn(LayerReports)

SpecLayers == InitLayers /\ [][Parse]_vars

---------------------------------------------------------------------------
(* Properties of validate_metar and parse_text                             *)

\* the field number n (from 1) of a report text, "" when it has fewer fields
FieldOf(s, n) == IF n <= Len(split(s)) THEN split(s)[n] ELSE ""

\* The body of a report as the specification defines it: the text before the
\* first trend keyword and before the remarks marker
BodyOf(s) ==
    LET marks == {FindFrom(s, m, 1) : m \in {" TEMPO", " BECMG", " NOSIG", " RMK"}} \ {0}
    IN  IF marks = {} THEN s ELSE SubSeq(s, 1, Least(marks) - 1)

\* the trend keyword kw occurs in s after an occurrence of the remarks marker
TrendKeywordAfterRmk(s, kw) ==
    \E i \in 1..Len(s) :
        /\ Slice(s, i, i + 2) = "RMK"
        /\ \E j \in (i + 3)..Len(s) : Slice(s, j, j + Len(kw) - 1) = kw

\* a rule that validate_metar applies before it looks for the remarks marker
\* rejects s: a line break, or the misspelt marker MK
EarlierRuleRejects(s) ==
    \/ Contains(strip(rstrip_eq(s)), "\n")
    \/ Contains(strip(rstrip_eq(s)), "\r")
    \/ \E i \in 1..Len(strip(rstrip_eq(s))) :
          /\ Slice(strip(rstrip_eq(s)), i + 1, i + 2) = "MK"
          /\ At(strip(rstrip_eq(s)), i) \in Space
          /\ At(strip(rstrip_eq(s)), i + 3) \in Space

\* the year and month handed to parse_text are valid for the report: the day
\* of its time group ddhhmmZ is a day of that month
DayIsInMonth(s, y, m) ==
    \E n \in 1..Len(split(s)) :
        /\ Len(split(s)[n]) = 7
        /\ At(split(s)[n], 7) = "Z"
        /\ \E d \in 1..DaysInMonth(y, m) : Slice(split(s)[n], 1, 2) = Padded(d, 2)

\* C1: every report that validate_metar accepts in non-strict mode is decoded
\* by parse_text, given a year and a month that are valid for it, into a
\* complete record or into None (NIL report); parse_text raises no exception
C1_AcceptedReportIsDecoded ==
    (/\ verdict # NotCalled /\ record # NotCalled
     /\ ~strict_mode /\ verdict.valid
     /\ DayIsInMonth(text.s, year, month))
        => record.outcome \in {"record", "none"}

\* C2: whatever the argument (a string, the empty string, a value that is not a
\* string) and whatever the strictness, validate_metar returns (True, None) or
\* (False, reason) with reason one non-empty string
C2_VerdictIsAcceptOrReason ==
    verdict # NotCalled =>
        \/ verdict = Accept
        \/ /\ DOMAIN verdict = {"valid", "reason"}
           /\ verdict.valid = FALSE
           /\ ~verdict.reason.none
           /\ Len(verdict.reason.v) > 0

\* a report is rejected by a late rule, with that rule's reason
C2_RejectedWithReason ==
    /\ text = PyStr("METAR ZBAA 311400Z 00000MPS 9999 FEW020CB Q102")
    /\ verdict = Reject("Invalid QNH format: Q102")

\* C3: a report in which BECMG or TEMPO occurs after the remarks marker RMK is
\* rejected in strict and in non-strict mode; in non-strict mode, unless an
\* earlier rule rejects the report, the reason names a trend keyword that
\* follows the marker and the RMK section
C3_TrendAfterRmkRejected ==
    (verdict # NotCalled /\ text.type = "str") =>
        \A kw \in {"BECMG", "TEMPO"} :
            TrendKeywordAfterRmk(text.s, kw) =>
                /\ ~verdict.valid
                /\ (~strict_mode /\ ~EarlierRuleRejects(text.s)) =>
                      /\ Contains(verdict.reason.v, "RMK section")
                      /\ \E named \in {"BECMG", "TEMPO"} :
                            /\ TrendKeywordAfterRmk(text.s, named)
                            /\ Contains(verdict.reason.v, "TREND keyword " \o named)

\* a report with BECMG after RMK is rejected in non-strict mode for that
C3_BecmgInRemarksRejected ==
    /\ text = PyStr("METAR ZBAA 311400Z 01002MPS CAVOK 14/12 Q1009 NOSIG RMK BECMG")
    /\ ~strict_mode
    /\ verdict = Reject("TREND keyword BECMG found in RMK section (should be before RMK)")

\* C4: parse_text returns None for every report whose body holds the NIL
\* marker: no other field of such a report is decoded, so none makes the call
\* fail
C4_NilReportDecodesToNone ==
    (record # NotCalled /\ text.type = "str" /\ Contains(BodyOf(text.s), "NIL"))
        => record.outcome = "none"

\* C5: the result of parse_text is derived from the body alone: a report
\* decodes as the report that consists of its body only
C5_RecordDerivedFromBodyOnly ==
    (record # NotCalled /\ text.type = "str")
        => record = parse_text(BodyOf(text.s), year, month)

\* floor(v * 0.5144444) for the unit KT, v for the unit MPS
InMetresPerSecond(u, v) == IF u = "KT" THEN (v * 5144444) \div 10000000 ELSE v

\* a bearing of a wind group: VRB or three digits
IsBearing(b) == b = "VRB" \/ (Len(b) = 3 /\ \A i \in 1..3 : At(b, i) \in Digit)

\* C6: for the wind group ddd kk [G gg] KT of a report parse_text gives
\* wind_speed = floor(kk * 0.5144444) and gust = floor(gg * 0.5144444); for
\* the unit MPS it gives the integers kk and gg; without G gg the gust is None
C6_WindSpeedInMetresPerSecond ==
    (record # NotCalled /\ text.type = "str") =>
        LET tok == FieldOf(text.s, 4)
        IN  \A u \in {"KT", "MPS"} :
                /\ (IsBearing(Slice(tok, 1, 3)) /\ From(tok, 6) = u) =>
                      \A k \in 0..99 :
                          Slice(tok, 4, 5) = Padded(k, 2) =>
                              /\ record.outcome = "record"
                              /\ record.dataset.wind_speed = Some(InMetresPerSecond(u, k))
                              /\ record.dataset.gust = None
                /\ (IsBearing(Slice(tok, 1, 3)) /\ At(tok, 6) = "G" /\ From(tok, 9) = u) =>
                      \A k \in 0..99 :
                          Slice(tok, 4, 5) = Padded(k, 2) =>
                              \A g \in 0..99 :
                                  Slice(tok, 7, 8) = Padded(g, 2) =>
                                      /\ record.outcome = "record"
                                      /\ record.dataset.wind_speed = Some(InMetresPerSecond(u, k))
                                      /\ record.dataset.gust = Some(InMetresPerSecond(u, g))

\* 02020G30KT is decoded to the speed 10 and the gust 15
C6_KnotsConverted ==
    /\ text = PyStr("METAR ZBAA 311400Z 02020G30KT 9999 14/12 Q1009")
    /\ record # NotCalled
    /\ record.outcome = "record"
    /\ record.dataset.wind_speed = Some(10)
    /\ record.dataset.gust = Some(15)

\* C7: parse_text gives qnh in hectopascals: dddd for the pressure group
\* Qdddd (the field 7 of a report), floor(dddd * 0.01 * 33.8638) for the
\* group Adddd, None without a group
C7_PressureInHectopascals ==
    (record # NotCalled /\ text.type = "str") =>
        LET tok == FieldOf(text.s, 7)
        IN  /\ record.outcome = "record"
            /\ (Len(tok) = 5 /\ At(tok, 1) = "Q") =>
                  \A d \in 0..9999 :
                      From(tok, 2) = Padded(d, 4) => record.dataset.qnh = Some(d)
            /\ (Len(tok) = 5 /\ At(tok, 1) = "A") =>
                  \A d \in 0..9999 :
                      From(tok, 2) = Padded(d, 4) =>
                          record.dataset.qnh = Some((33 * d + (d * 8638) \div 10000) \div 100)
            /\ At(tok, 1) \notin {"Q", "A"} => record.dataset.qnh = None

\* The mapping of the visibility group, the field 5 of a report, for statute
\* miles up to maxMiles
VisibilityMapped(maxMiles) ==
    (record # NotCalled /\ text.type = "str") =>
        LET tok == FieldOf(text.s, 5)
        IN  /\ record.outcome = "record"
            /\ tok = "9999" => record.dataset.visibility = Some(99999)
            /\ tok = "0000" => record.dataset.visibility = Some(50)
            /\ (Len(tok) = 4 /\ tok \notin {"9999", "0000"}) =>
                  \A v \in 0..9999 :
                      tok = Padded(v, 4) => record.dataset.visibility = Some(v)
            /\ \A n \in 0..maxMiles :
                  tok \in {Padded(n, 1) \o "SM", Padded(n, 2) \o "SM"} =>
                      record.dataset.visibility = Some((n * 160934) \div 100)
            /\ (At(tok, 1) \notin Digit \/ Contains(tok, "/")) =>
                  record.dataset.visibility =
                      IF Contains(BodyOf(text.s), "CAVOK") THEN Some(99999) ELSE None

C9_CalmWindHasNoDirection ==
    (record # NotCalled /\ text.type = "str") =>
        LET tok == FieldOf(text.s, 4)
            bearing == Slice(FieldOf(text.s, 4), 1, 3)
        IN  (/\ IsBearing(bearing) /\ bearing # "VRB"
             /\ \E u \in {"KT", "MPS"} :
                   From(tok, 6) = u \/ (At(tok, 6) = "G" /\ From(tok, 9) = u)) =>
                \A k \in 0..99 :
                    Slice(tok, 4, 5) = Padded(k, 2) =>
                        /\ record.outcome = "record"
                        /\ (k = 0 /\ bearing = "000") =>
                              /\ record.dataset.wind_direction = None
                              /\ record.dataset.wind_speed = Some(0)
                        /\ (k # 0 /\ bearing = "000") =>
                              record.dataset.wind_direction = Some(0)
                        /\ (k = 0 /\ bearing # "000") =>
                              \A b \in 1..999 :
                                  bearing = Padded(b, 3) =>
                                      record.dataset.wind_direction = Some(b)

\* 00000KT is decoded to no direction and the speed 0
C9_CalmWindDecoded ==
    /\ text = PyStr("METAR ZBAA 311400Z 00000KT 9999 14/12 Q1009")
    /\ record # NotCalled
    /\ record.outcome = "record"
    /\ record.dataset.wind_direction = None
    /\ record.dataset.wind_speed = Some(0)

\* the cloud amounts in hundredths
OktasInHundredths(a) ==
    CASE a = "FEW" -> 25 [] a = "SCT" -> 50 [] a = "BKN" -> 75 [] a = "OVC" -> 100
      [] a = "SKC" -> 0 [] a = "NSC" -> 0

\* C10: a cloud group that the extractor matches, the field 6 of a report,
\* never makes parse_text fail; its layer has the cloud_mask of its amount
\* (FEW 0.25, SCT 0.5, BKN 0.75, OVC 1.0, SKC 0, NSC 0), the cloud_height
\* 20 m times its three digits or None without digits, and a type only when
\* the group holds CB or TCU
C10_CloudGroupDecoded ==
    (record # NotCalled /\ text.type = "str") =>
        \A a \in {"FEW", "SCT", "BKN", "OVC", "SKC", "NSC"} :
            LET tok == FieldOf(text.s, 6)
            IN  Slice(tok, 1, 3) = a =>
                    /\ record.outcome = "record"
                    /\ ~record.dataset.cloud.none
                    /\ Len(record.dataset.cloud.v) = 1
                    /\ record.dataset.cloud.v[1].cloud_mask = OktasInHundredths(a)
                    /\ \A h \in 0..999 :
                          Slice(tok, 4, 6) = Padded(h, 3) =>
                              record.dataset.cloud.v[1].cloud_height = Some(20 * h)
                    /\ At(tok, 4) \notin Digit => record.dataset.cloud.v[1].cloud_height = None
                    /\ ~record.dataset.cloud.v[1].cloud_type.none =>
                          (Contains(tok, "CB") \/ Contains(tok, "TCU"))

\* the fields of a report text after its kind, station and time group
GroupsOf(s) == {split(s)[n] : n \in 4..Len(split(s))}

\* The optional fields of a record are None exactly when the report has no
\* group of the field, and the rest of the record is produced; calm lists the
\* beginnings of the wind groups that have no direction although they are
\* present
OptionalFieldsDecoded(calm) ==
    (record # NotCalled /\ text.type = "str") =>
        LET groups == GroupsOf(text.s)
            decoded(wind, variation, visibility, temperature, pressure, cloud) ==
                /\ record.outcome = "record"
                /\ record.dataset.wind_speed.none <=> (wind = {})
                /\ record.dataset.wind_direction.none <=>
                      (wind = {} \/ \E w \in wind : \E c \in calm : startswith(w, c))
                /\ record.dataset.gust.none <=> ~(\E w \in wind : Contains(w, "G"))
                /\ record.dataset.wind_direction_range.none <=> (variation = {})
                /\ "CAVOK" \notin groups =>
                      (record.dataset.visibility.none <=> (visibility = {}))
                /\ record.dataset.temperature.none <=> (temperature = {})
                /\ record.dataset.dew_temperature.none <=> (temperature = {})
                /\ record.dataset.qnh.none <=> (pressure = {})
                /\ record.dataset.cloud.none <=> (cloud = {})
                /\ record.dataset.kind = Some("METAR")
                /\ record.dataset.icao = Some("ZBAA")
                /\ record.dataset.datetime = "2024-01-31T14:00:00+00:00"
                /\ record.dataset.cavok = ("CAVOK" \in groups)
                /\ Len(record.dataset.weather) > 0
        IN  decoded({g \in groups : endswith(g, "MPS") \/ endswith(g, "KT")},
                    {g \in groups : Len(g) = 7 /\ At(g, 4) = "V"},
                    {g \in groups : (Len(g) = 4 /\ isdigit(g)) \/ endswith(g, "SM")},
                    {g \in groups : Contains(g, "/")},
                    {g \in groups : Len(g) = 5 /\ At(g, 1) \in {"Q", "A"}},
                    {g \in groups : Slice(g, 1, 3) \in CloudAmounts})

FieldsOf(s) == {split(s)[n] : n \in 1..Len(split(s))}

\* the main observation of a report text: what validate_metar cuts into
\* fields, the text before the remarks and before the trend part
MainObservationOf(s) == main_obs_text_of(main_part_of(strip(rstrip_eq(s))))

\* the trend part of a report text
TrendPartOf(s) == trend_parts_of(main_part_of(strip(rstrip_eq(s))))

\* validate_metar comes to cut the report into fields: the checks on the whole
\* text pass, the main observation has 20 characters and four fields
ReachesFields(s, strict) ==
    /\ check_text(s, strict).valid
    /\ Len(MainObservationOf(s)) >= 20
    /\ Len(split(MainObservationOf(s))) >= 4

\* C13: when the main observation is long enough and its first field is four
\* capital letters, the report is rejected with a reason that says the report
\* type is missing and names the field; any other first field that is not
\* METAR, SPECI or TAF is rejected as an invalid or missing report type
C13_MissingReportTypeRejected ==
    (verdict # NotCalled /\ text.type = "str" /\ ReachesFields(text.s, strict_mode)) =>
        LET first == FieldOf(MainObservationOf(text.s), 1)
        IN  /\ (Len(first) = 4 /\ AllIn(first, Upper)) =>
                  /\ ~verdict.valid
                  /\ startswith(verdict.reason.v, "Missing report type")
                  /\ endswith(verdict.reason.v, first)
            /\ (~(Len(first) = 4 /\ AllIn(first, Upper)) /\ first \notin {"METAR", "SPECI", "TAF"}) =>
                  /\ ~verdict.valid
                  /\ startswith(verdict.reason.v, "Invalid or missing report type")
                  /\ endswith(verdict.reason.v, first)

\* a report that starts with its station is rejected for the missing type
C13_StationFirstRejected ==
    /\ text = PyStr("ZBAA 311400Z 01002MPS CAVOK 14/12 Q1009 NOSIG=")
    /\ verdict = Reject("Missing report type (METAR/SPECI): starts with ZBAA")

\* validate_metar comes to its pressure check: the header and the wind
\* group of the report pass
ReachesPressureCheck(s, strict) ==
    /\ ReachesFields(s, strict)
    /\ "idx" \in DOMAIN check_header(MainObservationOf(s))
    /\ check_wind(split(MainObservationOf(s)), check_header(MainObservationOf(s)).idx).valid

\* a field that starts with Q or A, is none of AUTO, AT and AT with four more
\* characters, and is neither Q or A with four digits nor Q//// or A////
MalformedPressure(f) ==
    /\ At(f, 1) \in {"Q", "A"}
    /\ f \notin {"AUTO", "AT"}
    /\ ~(startswith(f, "AT") /\ Len(f) = 6)
    /\ ~(Len(f) = 5 /\ (isdigit(From(f, 2)) \/ From(f, 2) = "////"))

\* C14: a report that passes the header and wind checks and whose main
\* observation has a malformed pressure field is rejected, and the reason
\* names a malformed QNH group and such a field of the report
C14_MalformedPressureRejected ==
    (verdict # NotCalled /\ text.type = "str" /\ ReachesPressureCheck(text.s, strict_mode)) =>
        LET malformed == {f \in FieldsOf(MainObservationOf(text.s)) : MalformedPressure(f)}
        IN  malformed # {} =>
                /\ ~verdict.valid
                /\ \E f \in malformed : verdict.reason.v = "Invalid QNH format: " \o f

\* the fields of the main observation begin with a kind, COR or not, a
\* station of four capital letters and a time group with a day in 1..31, and
\* NIL is the next field
HeaderThenNil(fields) ==
    LET cor == IF Len(fields) > 1 /\ fields[2] = "COR" THEN 1 ELSE 0
        station == fields[2 + cor]
        time == fields[3 + cor]
    IN  /\ Len(fields) >= 4 + cor
        /\ fields[1] \in {"METAR", "SPECI", "TAF"}
        /\ Len(station) = 4 /\ AllIn(station, Upper)
        /\ Len(time) = 7 /\ isdigit(Slice(time, 1, 6)) /\ At(time, 7) = "Z"
        /\ \E d \in 1..31 : Slice(time, 1, 2) = Padded(d, 2)
        /\ fields[4 + cor] = "NIL"

\* C15: a report that passes the checks on the whole text and whose main
\* observation begins with a valid header followed by NIL is accepted with
\* (True, None), whatever fields follow NIL and with or without "=" at the end
C15_NilReportAccepted ==
    (/\ verdict # NotCalled /\ text.type = "str"
     /\ check_text(text.s, strict_mode).valid
     /\ HeaderThenNil(split(MainObservationOf(text.s))))
        => verdict = Accept

\* a NIL report is accepted although fields that no other report may have
\* follow NIL
C15_NilWithBadFieldsAccepted ==
    /\ text = PyStr("METAR COR ZBAA 311400Z NIL 0003MPS Q10 5=")
    /\ verdict = Accept

\* the reason of the rejection of a remarks section in strict mode
StrictReason == "RMK remarks section not allowed in strict mode"

\* the text of a report before its remarks marker
BeforeRemarks(s) == strip(SubSeq(s, 1, FindFrom(s, "RMK", 1) - 1))

\* C16: in strict mode every report that holds the marker RMK is rejected; in
\* the default mode no report is rejected for having a remarks section: the
\* reason is never that of the strict mode, and a report whose text before
\* the marker is accepted on its own is accepted with its remarks, unless the
\* remarks hold BECMG or TEMPO or an earlier rule rejects the text
C16_RemarksRejectedInStrictModeOnly ==
    (verdict # NotCalled /\ text.type = "str" /\ Contains(text.s, "RMK")) =>
        /\ strict_mode => ~verdict.valid
        /\ ~strict_mode =>
              /\ verdict.reason # Some(StrictReason)
              /\ (/\ validate_metar(PyStr(BeforeRemarks(text.s)), FALSE) = Accept
                  /\ ~TrendKeywordAfterRmk(text.s, "BECMG")
                  /\ ~TrendKeywordAfterRmk(text.s, "TEMPO")
                  /\ ~EarlierRuleRejects(text.s))
                     => verdict = Accept

\* a report with remarks is rejected for them in strict mode
C16_RemarksRejectedInStrictMode ==
    /\ text = PyStr("METAR ZBAA 311400Z 01002MPS CAVOK 14/12 Q1009 NOSIG RMK WIND 020V080=")
    /\ strict_mode
    /\ verdict = Reject(StrictReason)

\* the same report is accepted in the default mode
C16_RemarksAcceptedInDefaultMode ==
    /\ text = PyStr("METAR ZBAA 311400Z 01002MPS CAVOK 14/12 Q1009 NOSIG RMK WIND 020V080=")
    /\ ~strict_mode
    /\ verdict = Accept

\* a time indicator: FM, TL or AT and four digits
TimeIndicator(f) == Len(f) = 6 /\ Slice(f, 1, 2) \in {"FM", "TL", "AT"} /\ isdigit(From(f, 3))

\* a field that a trend part may hold: a trend keyword, a time indicator, a
\* wind group, a visibility of four digits, a cloud group, NSW, CAVOK or a
\* weather phenomenon
TrendElement(f) ==
    \/ f \in {"BECMG", "TEMPO", "NOSIG", "NSW", "CAVOK"}
    \/ TimeIndicator(f)
    \/ (IsBearing(Slice(f, 1, 3)) /\ isdigit(Slice(f, 4, 5))
          /\ (From(f, 6) \in {"MPS", "KT"}
              \/ (At(f, 6) = "G" /\ isdigit(Slice(f, 7, 8)) /\ From(f, 9) \in {"MPS", "KT"})))
    \/ (Len(f) = 4 /\ isdigit(f))
    \/ Slice(f, 1, 3) \in CloudAmounts
    \/ (f # "" /\ Matches(trend_weather_pattern, f))

\* the category of a field that a trend part may not hold, "" for another field
ProhibitedCategory(f) ==
    IF At(f, 1) = "R" /\ Len(f) >= 3 /\ isdigit(Slice(f, 2, 3)) THEN "RVR"
    ELSE IF Len(f) = 5 /\ At(f, 1) \in {"A", "Q"} /\ isdigit(From(f, 2)) THEN "QNH"
    ELSE IF Matches(Whole(Cat(<<Opt(Lit("M")), Rep(D, 2), Lit("/"), Opt(Lit("M")), Rep(D, 2)>>)), f)
         THEN "Temperature"
    ELSE IF startswith(f, "WS") THEN "Wind shear"
    ELSE IF Len(f) = 6 /\ startswith(f, "PROB") /\ isdigit(From(f, 5)) THEN "Probability group"
    ELSE ""

\* a time indicator at the place n of a trend part with no BECMG or TEMPO
\* before it
Orphaned(trend, n) ==
    /\ TimeIndicator(trend[n])
    /\ \A k \in 1..(n - 1) : trend[k] \notin {"BECMG", "TEMPO"}

\* a report whose trend part has a prohibited field, after elements only and
\* after no orphaned time indicator, is rejected with the reason of the
\* category of the field
ProhibitedTrendFieldRejected ==
    (/\ verdict # NotCalled /\ text.type = "str"
     /\ validate_metar(PyStr(MainObservationOf(text.s)), FALSE) = Accept
     /\ check_text(text.s, strict_mode).valid) =>
        LET trend == TrendPartOf(text.s)
        IN  \A n \in 1..Len(trend) :
                (/\ ProhibitedCategory(trend[n]) # ""
                 /\ \A k \in 1..(n - 1) : TrendElement(trend[k]) /\ ~Orphaned(trend, k))
                    => verdict = Reject(ProhibitedCategory(trend[n]) \o " not allowed in TREND: "
                                          \o trend[n])

\* C17: every field of the trend part of a report that is accepted, and not
\* as a NIL report, is a trend keyword, a time indicator or an element of a
\* trend; a field of a prohibited category rejects with the reason of the
\* category, and any other field that is not recognised rejects as well
C17_TrendFieldsRecognised ==
    /\ ProhibitedTrendFieldRejected
    /\ (/\ verdict # NotCalled /\ text.type = "str" /\ verdict.valid
        /\ ~HeaderThenNil(split(MainObservationOf(text.s)))) =>
           LET trend == TrendPartOf(text.s)
           IN  \A n \in 1..Len(trend) : TrendElement(trend[n])

\* C18: in a report that is accepted, and not as a NIL report, no field of
\* the main observation is a time indicator FM, TL or AT, and every time
\* indicator of the trend part has a field BECMG or TEMPO before it in the
\* trend part: a time indicator in the main observation, or after NOSIG
\* only, rejects the report
C18_TimeIndicatorFollowsChangeKeyword ==
    (/\ verdict # NotCalled /\ text.type = "str" /\ verdict.valid
     /\ ~HeaderThenNil(split(MainObservationOf(text.s)))) =>
        LET trend == TrendPartOf(text.s)
        IN  /\ \A f \in FieldsOf(MainObservationOf(text.s)) : ~TimeIndicator(f)
            /\ \A n \in 1..Len(trend) : ~Orphaned(trend, n)

\* a report with two time indicators after TEMPO is accepted
C18_IndicatorsAfterTempoAccepted ==
    /\ text = PyStr("METAR ZBAA 311400Z 01002MPS CAVOK 14/12 Q1009 TEMPO FM1200 TL1300 3000")
    /\ verdict = Accept

\* a report with a time indicator after NOSIG is rejected
C18_IndicatorAfterNosigRejected ==
    /\ text = PyStr("METAR ZBAA 311400Z 01002MPS CAVOK 14/12 Q1009 NOSIG AT1400")
    /\ verdict = Reject("Time indicator AT1400 without BECMG/TEMPO")

\* the field in the place of the wind group: the one after the time group
\* and after AUTO, "" when the report ends before it
WindPlaceOf(fields) ==
    LET cor == IF Len(fields) > 1 /\ fields[2] = "COR" THEN 1 ELSE 0
        auto == IF Len(fields) >= 4 + cor /\ fields[4 + cor] = "AUTO" THEN 1 ELSE 0
    IN  IF Len(fields) >= 4 + cor + auto THEN fields[4 + cor + auto] ELSE ""

\* the wind grammar: a bearing or VRB, a speed of two digits, a gust G and two
\* digits or none, and the unit MPS or KT; or ///// and the unit
WindGrammar(f) ==
    \/ /\ IsBearing(Slice(f, 1, 3)) /\ isdigit(Slice(f, 4, 5))
       /\ \/ From(f, 6) \in {"MPS", "KT"}
          \/ At(f, 6) = "G" /\ isdigit(Slice(f, 7, 8)) /\ From(f, 9) \in {"MPS", "KT"}
    \/ f \in {"/////MPS", "/////KT"}

\* a field that looks like a wind group: three to six digits and then one to
\* three capital letters, the first of them M, K, P, G or C
WindShaped(f) ==
    \E d \in 3..6 :
        /\ isdigit(Slice(f, 1, d))
        /\ Len(f) - d \in 1..3
        /\ AllIn(From(f, d + 1), Upper)
        /\ At(f, d + 1) \in {"M", "K", "P", "G", "C"}

\* validate_metar comes to its wind check: the header passes and the report
\* is no NIL report
ReachesWindCheck(s, strict) ==
    /\ ReachesFields(s, strict)
    /\ "idx" \in DOMAIN check_header(MainObservationOf(s))

\* C19: a report whose field in the place of the wind group looks like a wind
\* group and is none by the wind grammar is rejected with a reason that says
\* the wind format is invalid and names the field (0003MPS, 1003MPS, 00000PS,
\* 01006M, 000G, 1800C)
C19_MalformedWindRejected ==
    (verdict # NotCalled /\ text.type = "str" /\ ReachesWindCheck(text.s, strict_mode)) =>
        LET wind == WindPlaceOf(split(MainObservationOf(text.s)))
        IN  (WindShaped(wind) /\ ~WindGrammar(wind)) =>
                verdict = Reject("Invalid wind format: " \o wind)

\* the spellings of a damaged NOSIG, in one field and in two
CorruptedNosig == {"NOSI", "NOSIT", "OSIG", "NNOSIG", "NOSSIG", "NOAISIG", "NOSZ"}

SplitNosig == {<<"NOSI", "G">>, <<"NOS", "IG">>, <<"NOAI", "SIG">>}

\* C20: a report with a valid header, wind and pressure whose main part ends
\* with a damaged NOSIG, in one field or split in two, is rejected with a
\* reason that names the damaged ending
C20_CorruptedNosigRejected ==
    (/\ verdict # NotCalled /\ text.type = "str"
     /\ ReachesPressureCheck(text.s, strict_mode)
     /\ check_qnh(split(MainObservationOf(text.s))).valid) =>
        LET fields == split(MainObservationOf(text.s))
            last == fields[Len(fields)]
            before == fields[Len(fields) - 1]
        IN  /\ last \in CorruptedNosig =>
                  (~verdict.valid /\ Contains(verdict.reason.v, last))
            /\ <<before, last>> \in SplitNosig =>
                  (~verdict.valid /\ Contains(verdict.reason.v, before \o " " \o last))

\* the fields of a report text before its remarks marker: those of the main
\* observation and those of the trend part
FieldsBeforeRemarks(s) == FieldsOf(MainObservationOf(s)) \cup FieldsOf(join(TrendPartOf(s)))

\* a field that is a single digit
SingleDigit(f) == Len(f) = 1 /\ isdigit(f)

\* C21: a report that has a valid header, is no NIL report and has a field
\* of a single digit before its remarks marker is rejected, whether the digit
\* stands in the main observation or after the trend keyword, and the
\* reason names an isolated digit and the digit
C21_SingleDigitRejected ==
    (verdict # NotCalled /\ text.type = "str" /\ ReachesWindCheck(text.s, strict_mode)) =>
        LET digits == {f \in FieldsBeforeRemarks(text.s) : SingleDigit(f)}
        IN  digits # {} =>
                /\ ~verdict.valid
                /\ \E f \in digits :
                      /\ startswith(verdict.reason.v, "Isolated digit")
                      /\ endswith(verdict.reason.v, f)

\* The part of C21 that the main observation alone is about: a single digit
\* among the fields of the main observation is rejected as an isolated digit
SingleDigitInMainObservationRejected ==
    (verdict # NotCalled /\ text.type = "str" /\ ReachesWindCheck(text.s, strict_mode)) =>
        LET digits == {f \in FieldsOf(MainObservationOf(text.s)) : SingleDigit(f)}
        IN  digits # {} =>
                \E f \in digits : verdict = Reject("Isolated digit: " \o f)

\* the field n of fields is a single capital letter outside the allowed
\* contexts: the field before it does not start with R and the field after
\* it is not all digits
IsolatedLetter(fields, n) ==
    /\ Len(fields[n]) = 1 /\ AllIn(fields[n], Upper)
    /\ ~(n > 1 /\ startswith(fields[n - 1], "R"))
    /\ ~(n < Len(fields) /\ isdigit(fields[n + 1]))

\* C26: a report that passes the header, wind and pressure checks and has an
\* isolated single letter among the fields of its main observation is
\* rejected, whatever the letter and whatever its place
C26_IsolatedLetterRejected ==
    (/\ verdict # NotCalled /\ text.type = "str"
     /\ ReachesPressureCheck(text.s, strict_mode)
     /\ check_qnh(split(MainObservationOf(text.s))).valid) =>
        LET fields == split(MainObservationOf(text.s))
        IN  (\E n \in 1..Len(fields) : IsolatedLetter(fields, n)) => ~verdict.valid

\* The part of C26 that holds for the letters M, P, U, D and N between two
\* other fields, and for any letter at the end of a main observation of a
\* report without remarks
IsolatedLetterOfListRejected ==
    (/\ verdict # NotCalled /\ text.type = "str"
     /\ ReachesPressureCheck(text.s, strict_mode)
     /\ check_qnh(split(MainObservationOf(text.s))).valid) =>
        LET fields == split(MainObservationOf(text.s))
        IN  \A n \in 1..Len(fields) :
                IsolatedLetter(fields, n) =>
                    /\ (n = Len(fields) /\ ~Contains(text.s, "RMK")) => ~verdict.valid
                    /\ (fields[n] \in {"M", "P", "U", "D", "N"} /\ n > 1 /\ n < Len(fields))
                          => ~verdict.valid

\* the fields of a main observation begin with a kind, COR or not, a station
\* of four capital letters and a time group with a day in 1..31
ValidHeader(fields) ==
    LET cor == IF Len(fields) > 1 /\ fields[2] = "COR" THEN 1 ELSE 0
        station == fields[2 + cor]
        time == fields[3 + cor]
    IN  /\ Len(fields) >= 4
        /\ Len(fields) >= 3 + cor
        /\ fields[1] \in {"METAR", "SPECI", "TAF"}
        /\ Len(station) = 4 /\ AllIn(station, Upper)
        /\ Len(time) = 7 /\ isdigit(Slice(time, 1, 6)) /\ At(time, 7) = "Z"
        /\ \E d \in 1..31 : Slice(time, 1, 2) = Padded(d, 2)

\* the station of a report with a valid header
StationOf(fields) == IF fields[2] = "COR" THEN fields[3] ELSE fields[2]

\* the report text s with the first occurrence of its station replaced by
\* the station icao
WithStation(s, icao) ==
    LET at == FindFrom(s, StationOf(split(s)), 1)
    IN  SubSeq(s, 1, at - 1) \o icao \o SubSeq(s, at + 4, Len(s))

\* C25: for a report with a valid header the pressure check never reports
\* the kind, the station or the time group as a malformed pressure group, and
\* the verdict is the one of the same report from the station ZBAA
C25_VerdictIndependentOfStation ==
    (/\ verdict # NotCalled /\ text.type = "str"
     /\ check_text(text.s, strict_mode).valid
     /\ Len(MainObservationOf(text.s)) >= 20
     /\ ValidHeader(split(MainObservationOf(text.s)))) =>
        LET fields == split(MainObservationOf(text.s))
            header == {fields[n] : n \in 1..(IF fields[2] = "COR" THEN 4 ELSE 3)}
        IN  /\ \A f \in header : verdict # Reject("Invalid QNH format: " \o f)
            /\ verdict = validate_metar(PyStr(WithStation(text.s, "ZBAA")), strict_mode)

\* The part of C25 that holds: the verdict is the same for every station that
\* begins with neither A nor Q
VerdictIndependentOfOtherStations ==
    (/\ verdict # NotCalled /\ text.type = "str"
     /\ check_text(text.s, strict_mode).valid
     /\ Len(MainObservationOf(text.s)) >= 20
     /\ ValidHeader(split(MainObservationOf(text.s)))
     /\ At(StationOf(split(MainObservationOf(text.s))), 1) \notin {"A", "Q"}) =>
        verdict = validate_metar(PyStr(WithStation(text.s, "ZBAA")), strict_mode)

\* The step of the pipeline that a reason of validate_metar belongs to; the
\* reason of the check of two short words at the end belongs to the step
\* two_words
StepOfReason(reason, two_words) ==
    LET begins(S) == \E p \in S : startswith(reason, p)
    IN  IF reason = "Empty or invalid input" THEN 1
        ELSE IF begins({"Contains line breaks"}) THEN 2
        ELSE IF reason = "Spelling error: MK (should be RMK)" THEN 3
        ELSE IF begins({"RMK remarks section", "TREND keyword"}) THEN 4
        ELSE IF begins({"Contains invalid characters"}) THEN 5
        ELSE IF begins({"Spelling error"}) THEN 6
        ELSE IF begins({"Contains placeholder"}) THEN 7
        ELSE IF begins({"METAR text too short", "Missing essential fields"}) THEN 9
        ELSE IF begins({"Missing report type", "Invalid or missing report type",
                        "Missing ICAO code", "Invalid ICAO code format", "Missing time group",
                        "Invalid time format", "Invalid day in time group"}) THEN 10
        ELSE IF begins({"Invalid wind format", "Wind group spacing error",
                        "Wind variation spacing error"}) THEN 11
        ELSE IF begins({"Invalid QNH format"}) THEN 12
        ELSE IF begins({"Invalid ending: "}) /\ Contains(From(reason, 17), " ") THEN two_words
        ELSE IF begins({"Invalid spacing in ending", "Invalid single letter ending",
                        "Invalid ending"}) THEN 13
        ELSE IF begins({"Isolated character", "Isolated digit"}) THEN 14
        ELSE IF \/ begins({"Isolated numeric value", "Invalid cloud group format",
                           "Suspicious field"})
                \/ begins({"Time indicator"}) /\ endswith(reason, "must follow BECMG or TEMPO")
        THEN 15
        ELSE 16

\* the step of a verdict: 0 for an acceptance
StepOfVerdict(v, two_words) == IF v.valid THEN 0 ELSE StepOfReason(v.reason.v, two_words)

\* The lowest step of the pipeline whose rule the report text s violates, 0
\* when it violates none; the rule of the two short words at the end counts
\* as the step two_words.  After a rejected header, and after the NIL of a
\* NIL report, there are no further rules.
LowestViolated(s, strict, two_words) ==
    LET text_clean == strip(rstrip_eq(s))
        main_part == main_part_of(text_clean)
        parts == split(MainObservationOf(s))
        header == check_header(MainObservationOf(s))
        wind == check_wind(parts, header.idx)
        later == (IF check_ending(parts, has_rmk_of(text_clean)).valid THEN {} ELSE {13})
                 \cup (IF check_last_two(parts).valid THEN {} ELSE {two_words})
                 \cup (IF check_isolated(parts).valid THEN {} ELSE {14})
                 \cup (IF check_fields(parts, wind.idx).valid THEN {} ELSE {15})
                 \cup (IF check_trend(has_trend_of(main_part), trend_parts_of(main_part)).valid
                       THEN {} ELSE {16})
    IN  IF s = "" THEN 1
        ELSE IF ~check_text(s, strict).valid
        THEN StepOfReason(check_text(s, strict).reason.v, two_words)
        ELSE IF ~header.valid THEN StepOfReason(header.reason.v, two_words)
        ELSE IF "idx" \notin DOMAIN header THEN 0
        ELSE IF ~wind.valid THEN 11
        ELSE IF ~check_qnh(parts).valid THEN 12
        ELSE IF later = {} THEN 0
        ELSE Least(later)

\* C24: validate_metar returns the reason of the first rule that the report
\* violates in the order of the steps 1 to 16, where the rule of the two
\* short words at the end of the main observation comes last, after the
\* trend checks of step 16 (it counts as a step 17); in particular a damaged
\* NOSIG and a single letter at the end are reported before the rules of
\* steps 14, 15 and 16
C24_FirstViolatedRuleReported ==
    (verdict # NotCalled /\ text.type = "str") =>
        StepOfVerdict(verdict, 17) = LowestViolated(text.s, strict_mode, 17)

\* C24 as it is stated: the rule of the two short words at the end belongs
\* to step 13 and is reported before the rules of steps 14, 15 and 16
C24_EndingRulesReportedFirst ==
    (verdict # NotCalled /\ text.type = "str") =>
        StepOfVerdict(verdict, 13) = LowestViolated(text.s, strict_mode, 13)

\* a report with a number of three digits among its fields and a damaged
\* NOSIG at its end is rejected for its ending
C24_EndingReportedBeforeField ==
    /\ text = PyStr("METAR ZBAA 311400Z 01002MPS CAVOK 14/12 Q1009 003 NOSI TEMPO R18/1000")
    /\ verdict = Reject("Invalid ending: NOSI")

\* the positions p of s from i on at which a match of r starts; with nonempty
\* set, the empty match at i does not count (the match before it was empty
\* and ended at i)
MatchStarts(r, s, i, nonempty) ==
    {p \in i..(Len(s) + 1) : EndsAt(r, s, p, i, nonempty) # <<>>}

\* the match of r in s at position p that the matcher prefers
PreferredAt(r, s, p, i, nonempty) == SubSeq(s, p, EndsAt(r, s, p, i, nonempty)[1] - 1)

RECURSIVE AllMatchesFrom(_, _, _, _, _, _)
\* list[k], list[k+1], ... are the matches of r in s from position i on: each
\* starts at the first position at or after the end of the one before at
\* which a match starts, and after the last no match starts
AllMatchesFrom(list, k, r, s, i, nonempty) ==
    LET starts == MatchStarts(r, s, i, nonempty)
    IN  IF k > Len(list) THEN starts = {}
        ELSE /\ starts # {}
             /\ list[k] = PreferredAt(r, s, Least(starts), i, nonempty)
             /\ AllMatchesFrom(list, k + 1, r, s, Least(starts) + Len(list[k]), list[k] = "")

FirstOf(s, words, i) ==
    LET at == {FindFrom(s, w, i) : w \in words} \ {0}
    IN  IF at = {} THEN 0 ELSE Least(at)

\* the span of s from its first kind keyword up to the first trend keyword
\* after it, the space before the trend keyword not included; "" when s has
\* no kind keyword or no trend keyword after it
ObservSpan(s) ==
    LET kind == FirstOf(s, {"METAR", "SPECI", "TAF"}, 1)
        trend == IF kind = 0 THEN 0 ELSE FirstOf(s, {" TEMPO", " BECMG", " NOSIG"}, kind + 3)
    IN  IF kind = 0 \/ trend = 0 THEN "" ELSE SubSeq(s, kind, trend - 1)

\* s without the "=" that ends it
WithoutEndMark(s) == IF endswith(s, "=") THEN SubSeq(s, 1, Len(s) - 1) ELSE s

\* C23: get_field_text("observ", text, "first") is never None: it is the span
\* from the kind keyword up to the first trend keyword after it when the
\* text has both, and otherwise the whole text without the "=" at its end,
\* every other character unchanged
C23_ObservIsSpanOrWholeText ==
    \A n \in 1..Len(calls) :
        (/\ calls[n].function = "get_field_text"
         /\ calls[n].args[1] = "observ" /\ calls[n].args[3] = "first") =>
            calls[n].result =
                IF ObservSpan(calls[n].args[2]) # "" THEN Some(ObservSpan(calls[n].args[2]))
                ELSE Some(WithoutEndMark(calls[n].args[2]))

\* The part of C23 that holds: the result for observ is never None in either
\* mode, and for a text of one line without "=" before its end, mode first
\* gives the span or the whole text
ObservNeverNone ==
    \A n \in 1..Len(calls) :
        (calls[n].function = "get_field_text" /\ calls[n].args[1] = "observ") =>
            LET s == calls[n].args[2]
            IN  /\ calls[n].result = Some(calls[n].result.v)
                /\ (/\ calls[n].args[3] = "first"
                    /\ ~Contains(WithoutEndMark(s), "=") /\ ~Contains(s, "\n")) =>
                       calls[n].result =
                           IF ObservSpan(s) # "" THEN Some(ObservSpan(s))
                           ELSE Some(WithoutEndMark(s))

\* the call of get_weather_description is in its peeling loop
Peeling == "outcome" \in DOMAIN record /\ record.outcome = "peeling"

\* the call of get_weather_description has returned
Described == "outcome" \in DOMAIN record /\ record.outcome = "description"

\* the weather pattern matches the whole of the token t when t stands between
\* two spaces
PatternToken(t) ==
    LET m == re_search(PatWeather, " " \o t \o " ")
    IN  m.found /\ m.start = 2 /\ m.group = t

\* C29: the call of get_weather_description on a token that the weather
\* pattern matches returns: every pass of the peeling loop finds a key of
\* the table at the front of what is left of the code and takes it off, no
\* pass leaves the code unchanged, and the loop ends with the code used up
C29_PeelingLoopTerminates ==
    /\ [](Peeling /\ PatternToken(text.s) /\ Len(record.code) > 0
              => /\ FirstKey(record.code) # 0
                 /\ Len(WEATHER_KEYS[FirstKey(record.code)]) = 2)
    /\ (Peeling /\ PatternToken(text.s)) ~> Described

\* a heavy thunderstorm with rain is described after two passes of the loop
C29_ThunderstormDescribed ==
    /\ text = PyStr("+TSRA")
    /\ Described
    /\ record.description = "Heavy Thunderstorm Rain"

\* t is a token of codes of the table, after + or - or neither
TableToken(t) ==
    LET code == IF At(t, 1) \in {"+", "-"} THEN From(t, 2) ELSE t
    IN  /\ Len(code) % 2 = 0
        /\ \A n \in 1..(Len(code) \div 2) :
              SubSeq(code, 2 * n - 1, 2 * n) \in DOMAIN weather_codes

RECURSIVE Phrases(_)
\* the phrases of the codes of code, two letters each, in their order, with
\* one space between two phrases
Phrases(code) ==
    IF Len(code) <= 2 THEN (IF code = "" THEN "" ELSE weather_codes[code])
    ELSE weather_codes[SubSeq(code, 1, 2)] \o " " \o Phrases(From(code, 3))

\* C30: for a token of codes of the table after + or - or neither, the
\* description is "Heavy " for +, "Light " for -, and then the phrases of
\* the codes in the order of the token with single spaces between them; at
\* most one key of the table is at the front of what is left of the code, so
\* the order in which the table is gone through does not matter
C30_PhrasesInTokenOrder ==
    TableToken(text.s) =>
        /\ Peeling =>
              Cardinality({n \in 1..Len(WEATHER_KEYS) :
                              startswith(record.code, WEATHER_KEYS[n])}) <= 1
        /\ Described =>
              record.description =
                  (IF At(text.s, 1) = "+" THEN "Heavy " \o Phrases(From(text.s, 2))
                   ELSE IF At(text.s, 1) = "-" THEN "Light " \o Phrases(From(text.s, 2))
                   ELSE Phrases(text.s))

\* showers in the vicinity are described in the order of the token
C30_ShowersInVicinityDescribed ==
    /\ text = PyStr("VCSH")
    /\ Described
    /\ record.description = "In the Vicinity Showers of"

\* The call made step by step returns what get_weather_description returns
\* in one piece
StepsAgreeWithFunction ==
    Described => get_weather_description(text.s) =
                     [hangs |-> FALSE, description |-> record.description]

\* the groups of the body of a report text, in their order: the fields after
\* the time group and before the trend part, the end mark left out
BodyGroups(s) ==
    LET fields == split(replace(BodyOf(s), "=", ""))
    IN  SubSeq(fields, 4, Len(fields))

\* a cloud group: a field that starts with a cloud amount
CloudGroup(f) == Slice(f, 1, 3) \in {"FEW", "SCT", "BKN", "OVC", "SKC", "NSC"}

\* a weather group: a field that the weather pattern matches as a whole
WeatherGroup(f) == f # "" /\ PatternToken(f)

\* the greatest of a set of strings in lexicographic order
Greatest_string(S) == CHOOSE x \in S : \A y \in S : y = x \/ StrLess(y, x)

\* the phrase derived from a cloud amount in hundredths
PhraseOfMask(mask) ==
    IF mask = 0 THEN "Clear Sky" ELSE IF mask = 100 THEN "Overcast" ELSE "Cloudy"

\* the weather of a record as C27 has it, for the weather groups weather and
\* the cloud groups clouds of the body: the descriptions of the weather
\* groups when there are some, and else the one phrase derived from the last
\* cloud group in lexicographic order, or Clear Sky without cloud groups
WeatherOf(weather, clouds) ==
    IF weather # <<>>
    THEN [n \in 1..Len(weather) |->
             (IF At(weather[n], 1) = "+" THEN "Heavy " \o Phrases(From(weather[n], 2))
              ELSE IF At(weather[n], 1) = "-" THEN "Light " \o Phrases(From(weather[n], 2))
              ELSE Phrases(weather[n]))]
    ELSE IF clouds = {} THEN <<"Clear Sky">>
    ELSE <<PhraseOfMask(OktasInHundredths(Slice(Greatest_string(clouds), 1, 3)))>>

\* C27: without a weather group in the body the weather of the record is one
\* derived phrase, Clear Sky without a cloud group and else the phrase of the
\* last cloud group in lexicographic order alone; with a weather group in
\* the body the weather is the descriptions of the weather groups, whatever
\* the cloud groups are
C27_WeatherDerivedFromLastLayer ==
    (record # NotCalled /\ text.type = "str" /\ record.outcome = "record") =>
        LET groups == BodyGroups(text.s)
        IN  record.dataset.weather =
                WeatherOf(SelectSeq(groups, WeatherGroup),
                          {groups[n] : n \in {m \in 1..Len(groups) : CloudGroup(groups[m])}})

\* The part of C27 that holds: the same with the weather groups that are not
\* the last group of the body
WeatherOfGroupsBeforeTheLast ==
    (record # NotCalled /\ text.type = "str" /\ record.outcome = "record") =>
        LET groups == BodyGroups(text.s)
        IN  record.dataset.weather =
                WeatherOf(SelectSeq(SubSeq(groups, 1, Len(groups) - 1), WeatherGroup),
                          {groups[n] : n \in {m \in 1..Len(groups) : CloudGroup(groups[m])}})

\* the strings of the set S in ascending lexicographic order
Ascending(S) ==
    [n \in 1..Cardinality(S) |->
        CHOOSE x \in S : Cardinality({y \in S : StrLess(y, x)}) = n - 1]

\* the layer of a cloud group of three letters with three digits or none
LayerOf(f) ==
    [cloud_mask |-> OktasInHundredths(Slice(f, 1, 3)),
     cloud_height |-> IF Len(f) = 3 THEN None ELSE Some(20 * DecimalValue(Slice(f, 4, 6))),
     cloud_height_units |-> "m",
     cloud_type |-> None]

\* C28: the layers of the record are those of the cloud groups of the body
\* in ascending lexicographic order of the groups, whatever the order of the
\* groups in the report is: reports with the same cloud groups in another
\* order have the same cloud list, and a body without cloud groups has None
C28_LayersInLexicographicOrder ==
    (record # NotCalled /\ text.type = "str" /\ record.outcome = "record") =>
        LET groups == BodyGroups(text.s)
            clouds == {groups[n] : n \in {m \in 1..Len(groups) : CloudGroup(groups[m])}}
            layers == record.dataset.cloud
        IN  IF clouds = {} THEN layers = None
            ELSE /\ layers = Some(layers.v)
                 /\ Len(layers.v) = Cardinality(clouds)
                 /\ \A n \in 1..Len(layers.v) : layers.v[n] = LayerOf(Ascending(clouds)[n])

\* a report with its cloud groups in descending order has its layers in
\* ascending order: BKN030, FEW005, OVC010
C28_DescendingGroupsSorted ==
    /\ text = PyStr("METAR ZBAA 311400Z 01002MPS 3000 OVC010 FEW005 BKN030 14/12 Q1009")
    /\ record # NotCalled
    /\ record.outcome = "record"
    /\ [n \in 1..3 |-> record.dataset.cloud.v[n].cloud_height] = <<Some(600), Some(100), Some(200)>>

=============================================================================
